---- MODULE Spec2Model ----
(***************************************************************************)
(* Model of the transaction sizing and dynamic packing code of             *)
(* @cosmic-lab/data-source (transactions/sizing.ts, transactions/compute.ts)*)
(*                                                                         *)
(* Public keys, program ids and lookup-table keys are natural numbers; an  *)
(* instruction's data is represented by its byte length, the only thing    *)
(* the sizing code reads from it.                                          *)
(***************************************************************************)
EXTENDS Integers, Sequences, FiniteSets, TLC

\* Longest caller-supplied instruction list that is enumerated.
MaxLen == 3

MAX_TRANSACTION_SIZE == 1232
MAX_UNIQUE_KEYS_COUNT == 128

\* Default value of the maxInstructionCount parameter.
DefaultMaxInstructionCount == 64

\* Public key of the fee payer (feePayer.publicKey()).
FeePayer == 1

-----------------------------------------------------------------------------
(* Values of the source's types *)

\* AccountMeta
Meta(k, s) == [pubkey |-> k, isSigner |-> s]

\* n consecutive non-signer account metas starting at key a
KeyRun(a, n) == [j \in 1..n |-> Meta(a + j - 1, FALSE)]

\* InstructionWithSigners
Ix(p, ks, d, sg) ==
  [instruction |-> [programId |-> p, keys |-> ks, dataLen |-> d], signers |-> sg]

\* AddressLookupTableAccount
Lut(k, addrs) == [key |-> k, addresses |-> addrs]

Range(s) == {s[j] : j \in 1..Len(s)}

-----------------------------------------------------------------------------
(* Inputs that are enumerated *)

\* a large instruction that fills a transaction almost alone
IxBig == Ix(4, <<Meta(FeePayer, TRUE)>> \o KeyRun(11, 3), 940, {FeePayer})
\* two small instructions
IxMid == Ix(4, <<Meta(FeePayer, TRUE)>> \o KeyRun(14, 3), 10, {FeePayer})
IxTail == Ix(4, <<Meta(FeePayer, TRUE)>> \o KeyRun(21, 4), 10, {FeePayer})
\* 126 further accounts: 128 unique keys with fee payer and program id
IxWide128 == Ix(4, <<Meta(FeePayer, TRUE)>> \o KeyRun(100, 126), 8, {FeePayer})
\* 127 further accounts: 129 unique keys with fee payer and program id
IxWide129 == Ix(4, <<Meta(FeePayer, TRUE)>> \o KeyRun(100, 127), 8, {FeePayer})

InstructionKinds == {IxBig, IxMid, IxTail, IxWide128, IxWide129}

\* scaffolding instructions
IxHead == Ix(6, <<>>, 4, {})
IxFoot == Ix(5, <<>>, 4, {})

BeforeChoices == {<<>>, <<IxHead>>, <<IxWide129>>}
AfterChoices == {<<>>, <<IxFoot>>}

\* ComputeBudgetProgram.setComputeUnitPrice / setComputeUnitLimit
SetComputeUnitPrice == Ix(3, <<>>, 9, {})
SetComputeUnitLimit == Ix(3, <<>>, 5, {})
COMPUTE_TEST_INSTRUCTION_RETURNS == <<SetComputeUnitPrice, SetComputeUnitLimit>>

\* table addresses are public keys
Addresses(run) == [j \in 1..Len(run) |-> run[j].pubkey]

\* a table holding every account of the wide instructions
LutWide == Lut(900, Addresses(KeyRun(100, 127)))
\* three overlapping tables over the accounts of IxBig, IxMid and IxTail
LutA == Lut(901, Addresses(KeyRun(11, 3) \o KeyRun(21, 4)))
LutB == Lut(902, Addresses(KeyRun(14, 3)))
LutC == Lut(903, Addresses(KeyRun(12, 4)))

LookupTableChoices == {<<>>, <<LutWide>>, <<LutA, LutB, LutC>>}

MaxInstructionCountChoices == {1, 2, DefaultMaxInstructionCount}

EntryPoints == {"buildDynamicTransactionsNoSigning",
                "buildDynamicTransactions",
                "buildOptimalDynamicTransactions"}

RECURSIVE SeqsUpTo(_, _)
SeqsUpTo(S, n) ==
  IF n = 0 THEN {<<>>}
  ELSE LET shorter == SeqsUpTo(S, n - 1)
       IN shorter \cup {Append(s, x) : s \in {t \in shorter : Len(t) = n - 1}, x \in S}

-----------------------------------------------------------------------------
(* Size estimation: getTransactionSize and findBestLookupTables *)

lengthToCompact16size(size) == IF size > 127 THEN 2 ELSE 1

\* a total that counts a table's key without its two index lengths
totalSize_BareTableKey(staticAccountSize, lutCount, includedAccounts, remainingStatic) ==
  LET staticCount == staticAccountSize.staticAccounts + remainingStatic
  IN staticAccountSize.staticSize
       + 32 * lutCount
       + includedAccounts
       + lengthToCompact16size(staticCount)
       + staticCount * 32

totalSize(staticAccountSize, lutCount, includedAccounts, remainingStatic) ==
  LET staticCount == staticAccountSize.staticAccounts + remainingStatic
  IN staticAccountSize.staticSize
       + 34 * lutCount
       + includedAccounts
       + lengthToCompact16size(staticCount)
       + staticCount * 32

\* a count that finds no key in any table
containedInLUTCount_None(keys, lookupTableAddresses) == <<0, keys>>

containedInLUTCount(keys, lookupTableAddresses) ==
  <<Cardinality(keys \cap lookupTableAddresses), keys \ lookupTableAddresses>>

\* [Set<string>, AddressLookupTableAccount][]
buildLookupTableSet(tables) ==
  [j \in 1..Len(tables) |-> <<Range(tables[j].addresses), tables[j]>>]

\* the eager-accept test of the table loop
AcceptsTable(txnSize) == txnSize < MAX_TRANSACTION_SIZE

\* a comparison that lets a later candidate of equal size replace the best
Improves_OrEqual(txnSize, bestSize) == txnSize <= bestSize

\* else if (txnSize < bestSize)
Improves(txnSize, bestSize) == txnSize < bestSize

\* The for loop over remainingLuts, from position lutIndex on. best carries
\* bestSize, bestRemaining, bestIncluded and bestLutIndex; the loop's early
\* return is the record with accepted = TRUE.
RECURSIVE LutLoop(_, _, _, _, _, _, _)
LutLoop(staticAccountSize, lutCount, includedAccounts, remainingAccounts, remainingLuts, lutIndex, best) ==
  IF lutIndex > Len(remainingLuts) THEN best
  ELSE
    LET lut == remainingLuts[lutIndex]
        c == containedInLUTCount(remainingAccounts, lut[1])
        newIncluded == includedAccounts + c[1]
        txnSize == totalSize(staticAccountSize, lutCount + 1, newIncluded,
                             Cardinality(c[2]))
    IN IF AcceptsTable(txnSize)
       THEN [accepted |-> TRUE, bestSize |-> txnSize, bestRemaining |-> c[2],
             bestIncluded |-> newIncluded, bestLutIndex |-> lutIndex]
       ELSE IF Improves(txnSize, best.bestSize)
       THEN LutLoop(staticAccountSize, lutCount, includedAccounts,
                    remainingAccounts, remainingLuts, lutIndex + 1,
                    [accepted |-> FALSE, bestSize |-> txnSize,
                     bestRemaining |-> c[2], bestIncluded |-> newIncluded,
                     bestLutIndex |-> lutIndex])
       ELSE LutLoop(staticAccountSize, lutCount, includedAccounts,
                    remainingAccounts, remainingLuts, lutIndex + 1, best)

\* remainingLuts.splice(index, 1)
RemoveAt(s, index) == [j \in 1..(Len(s) - 1) |-> IF j < index THEN s[j] ELSE s[j + 1]]

RECURSIVE findBestLookupTables(_, _, _, _, _, _, _)
findBestLookupTables(staticAccountSize, size, lutCount, includedAccounts, remainingAccounts, usedLuts, remainingLuts) ==
  IF Len(remainingLuts) = 0
  THEN [size |-> size, lookupTables |-> usedLuts,
        uniqueKeyCount |-> includedAccounts + Cardinality(remainingAccounts)]
  ELSE
    LET r == LutLoop(staticAccountSize, lutCount, includedAccounts,
                     remainingAccounts, remainingLuts, 1,
                     [accepted |-> FALSE, bestSize |-> size,
                      bestRemaining |-> remainingAccounts,
                      bestIncluded |-> includedAccounts, bestLutIndex |-> 1])
    IN IF r.accepted
       THEN [size |-> r.bestSize,
             lookupTables |-> Append(usedLuts, remainingLuts[r.bestLutIndex][2]),
             uniqueKeyCount |-> r.bestIncluded + Cardinality(r.bestRemaining)]
       ELSE IF size = r.bestSize
       THEN [size |-> size, lookupTables |-> usedLuts,
             uniqueKeyCount |-> includedAccounts + Cardinality(remainingAccounts)]
       ELSE findBestLookupTables(staticAccountSize, r.bestSize, lutCount + 1,
                                 r.bestIncluded, r.bestRemaining,
                                 Append(usedLuts, remainingLuts[r.bestLutIndex][2]),
                                 RemoveAt(remainingLuts, r.bestLutIndex))

\* keys of the account metas of all instructions
AllMetaKeys(ixs) ==
  UNION {{ixs[j].instruction.keys[k].pubkey : k \in 1..Len(ixs[j].instruction.keys)}
         : j \in 1..Len(ixs)}

\* uniqueSigners
UniqueSigners(ixs, funder) ==
  {funder} \cup
  UNION {{ixs[j].instruction.keys[k].pubkey :
            k \in {m \in 1..Len(ixs[j].instruction.keys) :
                     ixs[j].instruction.keys[m].isSigner}}
         : j \in 1..Len(ixs)}

\* programIds
ProgramIds(ixs) == {ixs[j].instruction.programId : j \in 1..Len(ixs)}

\* ineligibleKeys
IneligibleKeys(ixs, funder) == UniqueSigners(ixs, funder) \cup ProgramIds(ixs)

\* lutEligibleKeys after the two delete loops
LutEligibleKeys(ixs, funder) == AllMetaKeys(ixs) \ IneligibleKeys(ixs, funder)

RECURSIVE IxSizes(_)
IxSizes(ixs) ==
  IF Len(ixs) = 0 THEN 0
  ELSE LET instruction == Head(ixs).instruction
       IN 1 + lengthToCompact16size(Len(instruction.keys))
            + Len(instruction.keys)
            + lengthToCompact16size(instruction.dataLen)
            + instruction.dataLen
            + IxSizes(Tail(ixs))

StaticSize(ixs, funder) ==
  LET signers == Cardinality(UniqueSigners(ixs, funder))
  IN lengthToCompact16size(signers) + signers * 64 + 3 + 32 + 1
       + lengthToCompact16size(Len(ixs)) + IxSizes(ixs) + 1

\* a key test that already rejects exactly MAX_UNIQUE_KEYS_COUNT keys
TooManyKeys_Inclusive(uniqueKeyCount) == uniqueKeyCount >= MAX_UNIQUE_KEYS_COUNT

\* the test that sends getTransactionSize to its second early return
TooManyKeys(uniqueKeyCount) == uniqueKeyCount > MAX_UNIQUE_KEYS_COUNT

getTransactionSize(ixs, funder, lookupTableSets) ==
  LET lutEligibleKeys == LutEligibleKeys(ixs, funder)
      staticAccountSize ==
        [staticSize |-> StaticSize(ixs, funder),
         staticAccounts |-> Cardinality(IneligibleKeys(ixs, funder))]
      bestSize == totalSize(staticAccountSize, 0, 0, Cardinality(lutEligibleKeys))
      uniqueKeyCount ==
        Cardinality(IneligibleKeys(ixs, funder)) + Cardinality(lutEligibleKeys)
  IN IF bestSize <= MAX_TRANSACTION_SIZE \/ Len(lookupTableSets) = 0
     THEN [size |-> bestSize, lookupTables |-> <<>>, uniqueKeyCount |-> uniqueKeyCount]
     ELSE IF TooManyKeys(uniqueKeyCount)
     THEN [size |-> bestSize, lookupTables |-> <<>>, uniqueKeyCount |-> uniqueKeyCount]
     ELSE findBestLookupTables(staticAccountSize, bestSize, 0, 0,
                               lutEligibleKeys, <<>>, lookupTableSets)

-----------------------------------------------------------------------------
(* The dynamic packer and its entry points *)

VARIABLES
  entry,                   \* the public entry point that was called
  instructionsWithSigners, \* the caller's instructions, resolved
  beforeIxsWithSigners,    \* the before-instructions handed to the packer
  afterIxsWithSigners,     \* the after-instructions handed to the packer
  lookupTables,            \* the candidate lookup tables
  maxInstructionCount,
  pc,                      \* position of the call
  current,                 \* the working batch
  output,                  \* the batches pushed so far
  next,                    \* index of the next instruction of the for loop
  packResult,              \* the Result returned by the packer
  transactions,            \* the batches handed on to building and signing
  outcome,                 \* how the entry point completed
  estimate,                \* what getTransactionSize returned for a batch
  serialized,              \* byte length of the batch's serialized transaction
  feePayer,                \* the feePayer argument: a signer or a bare key
  asyncSigners,            \* the signers whose requiresAsync() is true
  signers,                 \* the SignerMap, in insertion order
  unsignedTransactions,    \* the compiled transactions being signed
  cursor,                  \* position of the running loop in signers.values()
  inFlight,                \* positions of the signers whose signAll is pending
  calls,                   \* the calls made on signers, in order
  transaction,             \* the transaction handed to sendTransaction
  sendOptions,             \* options?.sendOptions
  maxRetries,
  rawTransaction,          \* transaction.transaction.serialize()
  checked,                 \* verifySignatures has gone through the signatures
  signature,               \* what the first sendRawTransaction resolved to
  count,                   \* the count of the interval callback
  interval,                \* the interval is set and not cleared
  broadcasts,              \* the sendRawTransaction calls made, in order
  result,                  \* what confirmTransaction resolved to
  returned,                \* what sendTransaction returned or raised
  unhandled,               \* rejected re-broadcasts, which nothing awaits
  sends,                   \* the concurrent sendTransaction calls, one per batch
  timers,                  \* the interval handles that are set and not cleared
  heap,                    \* the arrays of instruction returns, by reference
  given,                   \* what the caller's array held when the call was made
  instructions,            \* the instructions argument: one return or an array
  priorityConfig,          \* what getLimit and getFee resolve to, if defined
  ixArray,                 \* the reference normalizeArray returned
  units,                   \* the promise of getLimit()
  microLamports,           \* the promise of getFee()
  rbh,                     \* the promise of getLatestBlockhash()
  handedOn,                \* the instructions handed to building and signing
  noSignedIxs,             \* per batch: what is simulated, before the splice
  budgets,                 \* per batch: the promises of getLimit and getFee
  latestBlockhash,         \* the promise of getLatestBlockhash()
  signedMessages,          \* per batch: the instructions of the signed message
  programs,                \* programs.programs of the RPC data source
  subscriptionCount,       \* the subscription ids the connection has given out
  subscriptions,           \* the listeners registered at the connection
  pendingRemovals,         \* the removals that were asked for and not yet done
  removeCalls,             \* the removals asked of the connection, in order
  returnedHandles,         \* the programs whose insertProgram has returned a handle
  inserting,               \* the programs whose insertProgram awaits its refresh
  refreshing,              \* the programs with a refresh of a handle in flight
  dataSourceClose,         \* how far closeDataSource has got
  late                     \* the calls made on the closed data source, and what they did

sizeVars == <<estimate, serialized>>

signVars == <<feePayer, asyncSigners, signers, unsignedTransactions, cursor, inFlight, calls>>

sendVars == <<transaction, sendOptions, maxRetries, rawTransaction, checked, signature, count, interval, broadcasts, result, returned, unhandled>>

concurrentVars == <<sends, timers>>

\* the variables of the calls other than a single pack, size, sign or send
optimalVars == <<heap, given, instructions, priorityConfig, ixArray, units, microLamports, rbh, handedOn>>

budgetVars == <<noSignedIxs, budgets, latestBlockhash, signedMessages>>

rpcVars == <<programs, subscriptionCount, subscriptions, pendingRemovals, removeCalls, returnedHandles, inserting, refreshing, dataSourceClose, late>>

laterVars == <<concurrentVars, optimalVars, budgetVars, rpcVars>>

\* the variables of the calls that follow packing
otherVars == <<sizeVars, signVars, sendVars, laterVars>>

vars == <<entry, instructionsWithSigners, beforeIxsWithSigners,
          afterIxsWithSigners, lookupTables, maxInstructionCount, pc, current,
          output, next, packResult, transactions, outcome, otherVars>>

NoEstimate == [size |-> 0, lookupTables |-> <<>>, uniqueKeyCount |-> 0]

SizeIdle == estimate = NoEstimate /\ serialized = 0

SignIdle ==
  /\ feePayer = [form |-> "signer", key |-> FeePayer]
  /\ asyncSigners = {}
  /\ signers = <<>>
  /\ unsignedTransactions = <<>>
  /\ cursor = 1
  /\ inFlight = {}
  /\ calls = <<>>

DefaultMaxRetries == 10

NoTransaction == [format |-> "none", signatures |-> <<>>]
NoSignature == [raw |-> <<>>, broadcast |-> 0]
NoConfirmation == [status |-> "none", err |-> "null"]
NotReturned == [status |-> "none", signature |-> NoSignature, error |-> ""]

SendIdle ==
  /\ transaction = NoTransaction
  /\ sendOptions = [skipPreflight |-> FALSE]
  /\ maxRetries = DefaultMaxRetries
  /\ rawTransaction = <<>>
  /\ checked = FALSE
  /\ signature = NoSignature
  /\ count = 0
  /\ interval = FALSE
  /\ broadcasts = <<>>
  /\ result = NoConfirmation
  /\ returned = NotReturned
  /\ unhandled = 0

ConcurrentIdle == sends = <<>> /\ timers = {}

\* no key, no data: the place of an instruction that is not there
NoInstruction == Ix(0, <<>>, 0, {})

\* a function of the priority config that is undefined
Absent == -2
\* the value undefined
Undefined == -1

NotSettled == [settled |-> FALSE, value |-> Undefined]

OptimalIdle ==
  /\ heap = <<>>
  /\ given = <<>>
  /\ instructions = [isArray |-> FALSE, ref |-> 0, item |-> NoInstruction]
  /\ priorityConfig = [getLimit |-> Absent, getFee |-> Absent]
  /\ ixArray = 0
  /\ units = NotSettled
  /\ microLamports = NotSettled
  /\ rbh = NotSettled
  /\ handedOn = <<>>

BudgetIdle ==
  /\ noSignedIxs = <<>>
  /\ budgets = <<>>
  /\ latestBlockhash = NotSettled
  /\ signedMessages = <<>>

\* programs.programs = []
NoPrograms == [isNull |-> FALSE, list |-> <<>>]

RpcIdle ==
  /\ programs = NoPrograms
  /\ subscriptionCount = 0
  /\ subscriptions = {}
  /\ pendingRemovals = {}
  /\ removeCalls = <<>>
  /\ returnedHandles = {}
  /\ inserting = {}
  /\ refreshing = {}
  /\ dataSourceClose = "none"
  /\ late = {}

LaterIdle == ConcurrentIdle /\ OptimalIdle /\ BudgetIdle /\ RpcIdle

OthersIdle == SizeIdle /\ SignIdle /\ SendIdle /\ LaterIdle

inputs == <<entry, instructionsWithSigners, beforeIxsWithSigners,
            afterIxsWithSigners, lookupTables, maxInstructionCount>>

ScaffoldTooBig ==
  "Before and after instructions alone are too big to fit in transaction"
ScaffoldTooManyKeys ==
  "Before and after instructions alone have too many unique keys to fit in transaction"
IxTooLarge == "Instruction too large to fit in transaction"
IxTooManyKeys == "Instruction has too many unique accounts to fit in transaction"

NoResult == [status |-> "none", error |-> "", programId |-> 0]
OkResult == [status |-> "ok", error |-> "", programId |-> 0]
ErrResult(msg, programId) == [status |-> "err", error |-> msg, programId |-> programId]

\* insert that ignores the index and puts the item first
insert_Prepend(arr, index, newItem) == <<newItem>> \o arr

insert(arr, index, newItem) ==
  SubSeq(arr, 1, index) \o <<newItem>> \o SubSeq(arr, index + 1, Len(arr))

deepCopyInstructions(batch) ==
  [instructions |->
     [j \in 1..Len(batch.instructions) |->
        [instruction |->
           [programId |-> batch.instructions[j].instruction.programId,
            keys |-> [k \in 1..Len(batch.instructions[j].instruction.keys) |->
                        Meta(batch.instructions[j].instruction.keys[k].pubkey,
                             batch.instructions[j].instruction.keys[k].isSigner)],
            dataLen |-> batch.instructions[j].instruction.dataLen],
         signers |-> batch.instructions[j].signers]],
   lookupTables |-> batch.lookupTables]

\* a size test that is never applied
OverSize_Unchecked(size) == FALSE

\* the size and key tests applied to the scaffolding and to a fresh batch
OverSize(size) == size > MAX_TRANSACTION_SIZE
OverKeys(uniqueKeyCount) == uniqueKeyCount > MAX_UNIQUE_KEYS_COUNT

\* a split test whose instruction cap is off by one
MustSplit_Eager(nextSize, nextUniqueKeyCount, nextLen, cap) ==
  \/ nextSize > MAX_TRANSACTION_SIZE
  \/ nextUniqueKeyCount > MAX_UNIQUE_KEYS_COUNT
  \/ nextLen >= cap

\* a split test that only knows the instruction cap
MustSplit_CapOnly(nextSize, nextUniqueKeyCount, nextLen, cap) == nextLen > cap

\* the test that closes the working batch
MustSplit(nextSize, nextUniqueKeyCount, nextLen, cap) ==
  \/ nextSize > MAX_TRANSACTION_SIZE
  \/ nextUniqueKeyCount > MAX_UNIQUE_KEYS_COUNT
  \/ nextLen > cap

\* a fresh batch that keeps the instructions of the closed one
FreshBatch_KeepsCurrent(before, ix, after, cur) ==
  SubSeq(cur.instructions, 1, Len(cur.instructions) - Len(after)) \o <<ix>> \o after

\* a fresh batch with the instruction behind the after-instructions
FreshBatch_AfterFirst(before, ix, after, cur) == before \o after \o <<ix>>

\* the batch started after a split
FreshBatch(before, ix, after, cur) == before \o <<ix>> \o after

\* the test that emits the last working batch
HoldsMore(cur, before, after) ==
  Len(cur.instructions) > Len(before) + Len(after)

\* buildOptimalDynamicTransactions prepends the two test compute-budget
\* instructions to the caller's before-instructions
PackerBefore(e, beforeIxs) ==
  IF e = "buildOptimalDynamicTransactions"
  THEN COMPUTE_TEST_INSTRUCTION_RETURNS \o beforeIxs
  ELSE beforeIxs

Init ==
  /\ entry \in EntryPoints
  /\ instructionsWithSigners \in SeqsUpTo(InstructionKinds, MaxLen)
  /\ \E b \in BeforeChoices : beforeIxsWithSigners = PackerBefore(entry, b)
  /\ afterIxsWithSigners \in AfterChoices
  /\ lookupTables \in LookupTableChoices
  /\ maxInstructionCount \in MaxInstructionCountChoices
  /\ pc = "start"
  /\ current = [instructions |-> <<>>, lookupTables |-> <<>>]
  /\ output = <<>>
  /\ next = 1
  /\ packResult = NoResult
  /\ transactions = <<>>
  /\ outcome = "none"
  /\ OthersIdle

\* a scaffolding test that is skipped
ScaffoldError_Skipped(est) == ""

\* lines 302-310: the error of a scaffolding-only batch, "" when it fits
ScaffoldError(est) ==
  IF OverSize(est.size) THEN ScaffoldTooBig
  ELSE IF OverKeys(est.uniqueKeyCount) THEN ScaffoldTooManyKeys
  ELSE ""

\* lines 342-349: the error of a fresh batch, "" when it fits
FreshError(est) ==
  IF OverSize(est.size) THEN IxTooLarge
  ELSE IF OverKeys(est.uniqueKeyCount) THEN IxTooManyKeys
  ELSE ""

\* lines 286-311: seed the working batch with the scaffolding and test it
Seed ==
  /\ pc = "start"
  /\ LET ixs == beforeIxsWithSigners \o afterIxsWithSigners
         est == getTransactionSize(ixs, FeePayer, buildLookupTableSet(lookupTables))
     IN IF ScaffoldError(est) # ""
        THEN /\ packResult' = ErrResult(ScaffoldError(est), 0)
             /\ pc' = "packed"
             /\ current' = [instructions |-> ixs, lookupTables |-> <<>>]
        ELSE /\ packResult' = packResult
             /\ pc' = "loop"
             /\ current' = [instructions |-> ixs, lookupTables |-> est.lookupTables]
  /\ UNCHANGED <<inputs, output, next, transactions, outcome>>
  /\ UNCHANGED otherVars

\* lines 313-362: one iteration of the for loop
Step ==
  /\ pc = "loop"
  /\ next <= Len(instructionsWithSigners)
  /\ LET ix == instructionsWithSigners[next]
         luts == buildLookupTableSet(lookupTables)
         nextIxs == insert(current.instructions,
                           Len(current.instructions) - Len(afterIxsWithSigners), ix)
         nextEst == getTransactionSize(nextIxs, FeePayer, luts)
         currentIxs == FreshBatch(beforeIxsWithSigners, ix, afterIxsWithSigners,
                                  current)
         curEst == getTransactionSize(currentIxs, FeePayer, luts)
     IN IF MustSplit(nextEst.size, nextEst.uniqueKeyCount, Len(nextIxs),
                     maxInstructionCount)
        THEN /\ output' = Append(output, deepCopyInstructions(current))
             /\ IF FreshError(curEst) # ""
                THEN /\ packResult' = ErrResult(FreshError(curEst),
                                                ix.instruction.programId)
                     /\ pc' = "packed"
                     /\ UNCHANGED <<current, next>>
                ELSE /\ current' = [instructions |-> currentIxs,
                                    lookupTables |-> curEst.lookupTables]
                     /\ next' = next + 1
                     /\ UNCHANGED <<packResult, pc>>
        ELSE /\ current' = [instructions |-> nextIxs,
                            lookupTables |-> nextEst.lookupTables]
             /\ next' = next + 1
             /\ UNCHANGED <<output, packResult, pc>>
  /\ UNCHANGED <<inputs, transactions, outcome>>
  /\ UNCHANGED otherVars

\* lines 364-371: emit the last working batch and return ok(output)
Finish ==
  /\ pc = "loop"
  /\ next > Len(instructionsWithSigners)
  /\ output' = IF HoldsMore(current, beforeIxsWithSigners, afterIxsWithSigners)
               THEN Append(output, deepCopyInstructions(current))
               ELSE output
  /\ packResult' = OkResult
  /\ pc' = "packed"
  /\ UNCHANGED <<inputs, current, next, transactions, outcome>>
  /\ UNCHANGED otherVars

\* buildDynamicTransactionsNoSigning hands its Result to the caller
ReturnNoSigning ==
  /\ pc = "packed"
  /\ entry = "buildDynamicTransactionsNoSigning"
  /\ outcome' = IF packResult.status = "err" THEN "err" ELSE "ok"
  /\ pc' = "returned"
  /\ UNCHANGED <<inputs, current, output, next, packResult, transactions>>
  /\ UNCHANGED otherVars

\* buildDynamicTransactions, after the packer has returned
ReturnDynamic ==
  /\ pc = "packed"
  /\ entry = "buildDynamicTransactions"
  /\ IF packResult.status = "err"
     THEN /\ outcome' = "err"
          /\ UNCHANGED transactions
     ELSE /\ transactions' = [j \in 1..Len(output) |->
                                [ixs |-> output[j].instructions,
                                 lookupTables |-> output[j].lookupTables]]
          /\ outcome' = "ok"
  /\ pc' = "returned"
  /\ UNCHANGED <<inputs, current, output, next, packResult>>
  /\ UNCHANGED otherVars

\* how buildOptimalDynamicTransactions surfaces a packer error
OptimalFailure == "throw"

\* v.instructions.splice(0, 2)
DropTestInstructions(ixs) == SubSeq(ixs, 3, Len(ixs))

\* buildOptimalDynamicTransactions, after the packer has returned; hasUnits
\* and hasFees say whether getLimit and getFee produced a value
ReturnOptimal ==
  /\ pc = "packed"
  /\ entry = "buildOptimalDynamicTransactions"
  /\ IF packResult.status = "err"
     THEN /\ outcome' = OptimalFailure
          /\ UNCHANGED <<transactions, output>>
     ELSE \E hasUnits \in BOOLEAN, hasFees \in BOOLEAN :
            LET stripped == [j \in 1..Len(output) |->
                               [instructions |-> DropTestInstructions(output[j].instructions),
                                lookupTables |-> output[j].lookupTables]]
                withFees(ixs) == IF hasFees THEN <<SetComputeUnitPrice>> \o ixs ELSE ixs
                withUnits(ixs) == IF hasUnits THEN <<SetComputeUnitLimit>> \o ixs ELSE ixs
                final == [j \in 1..Len(output) |->
                            [instructions |-> withUnits(withFees(stripped[j].instructions)),
                             lookupTables |-> stripped[j].lookupTables]]
            IN /\ output' = final
               /\ transactions' = [j \in 1..Len(output) |->
                                     [ixs |-> final[j].instructions,
                                      lookupTables |-> final[j].lookupTables]]
               /\ outcome' = "ok"
  /\ pc' = "returned"
  /\ UNCHANGED <<inputs, current, next, packResult>>
  /\ UNCHANGED otherVars

Next ==
  \/ Seed
  \/ Step
  \/ Finish
  \/ ReturnNoSigning
  \/ ReturnDynamic
  \/ ReturnOptimal

Spec == Init /\ [][Next]_vars

-----------------------------------------------------------------------------
(* Properties of the packer *)

\* the packer has returned ok(output) and no entry point has touched output
PackedOk == pc = "packed" /\ packResult.status = "ok"

\* a batch without its before/after scaffolding
Unwrapped(batch) ==
  SubSeq(batch.instructions, Len(beforeIxsWithSigners) + 1,
         Len(batch.instructions) - Len(afterIxsWithSigners))

RECURSIVE Flatten(_)
Flatten(ss) == IF Len(ss) = 0 THEN <<>> ELSE Head(ss) \o Flatten(Tail(ss))

\* every account key a batch references
BatchKeys(ixs) == {FeePayer} \cup ProgramIds(ixs) \cup AllMetaKeys(ixs)

Estimate(ixs) == getTransactionSize(ixs, FeePayer, buildLookupTableSet(lookupTables))

Wrapped(ixs) == beforeIxsWithSigners \o ixs \o afterIxsWithSigners

\* C1: when the packer succeeds, the batches without their scaffolding,
\* concatenated in emission order, are exactly the input instructions in
\* their original order.
C1_OrderPreserved ==
  PackedOk =>
    Flatten([j \in 1..Len(output) |-> Unwrapped(output[j])]) = instructionsWithSigners

C1_Witness ==
  /\ PackedOk
  /\ Len(output) = 3
  /\ Len(beforeIxsWithSigners) > 0
  /\ instructionsWithSigners = <<IxMid, IxBig, IxTail>>

\* C2: every emitted batch is estimated at no more than 1232 bytes and
\* references at most 128 unique account keys.
C2_Budgets ==
  pc \in {"loop", "packed"} =>
    \A j \in 1..Len(output) :
      /\ Estimate(output[j].instructions).size <= MAX_TRANSACTION_SIZE
      /\ Cardinality(BatchKeys(output[j].instructions)) <= MAX_UNIQUE_KEYS_COUNT

C2_Witness ==
  /\ PackedOk
  /\ Len(output) >= 2
  /\ \E j \in 1..Len(output) : Len(output[j].lookupTables) > 0
  /\ \E j \in 1..Len(output) :
       Estimate(output[j].instructions).size > MAX_TRANSACTION_SIZE - 32

\* C3: every emitted batch holds at most maxInstructionCount instructions,
\* scaffolding included.
C3_InstructionCap ==
  PackedOk => \A j \in 1..Len(output) : Len(output[j].instructions) <= maxInstructionCount

\* the packer's test of a batch against the byte and key budgets
FitsBudgets(ixs) ==
  /\ Estimate(ixs).size <= MAX_TRANSACTION_SIZE
  /\ Estimate(ixs).uniqueKeyCount <= MAX_UNIQUE_KEYS_COUNT

\* the scaffolding fits, and so does every input instruction alone in it
EachFitsAlone ==
  /\ FitsBudgets(Wrapped(<<>>))
  /\ \A j \in 1..Len(instructionsWithSigners) :
       FitsBudgets(Wrapped(<<instructionsWithSigners[j]>>))

\* C4: if the scaffolding fits and every input instruction fits alone
\* between the before and after instructions, the packer returns no error.
C4_NeverFails ==
  (pc \in {"packed", "returned"} /\ EachFitsAlone) => packResult.status = "ok"

C4_Witness ==
  /\ PackedOk
  /\ EachFitsAlone
  /\ Len(instructionsWithSigners) = MaxLen
  /\ Len(output) >= 2
  /\ Len(beforeIxsWithSigners) + Len(afterIxsWithSigners) >= maxInstructionCount

\* the packer's feasibility test of a group wrapped in the scaffolding
Feasible(ixs) ==
  /\ FitsBudgets(Wrapped(ixs))
  /\ Len(Wrapped(ixs)) <= maxInstructionCount

\* Partitions of 1..n into consecutive groups: g[i] is the group of position
\* i, groups are numbered from 1 in input order.
GroupMaps(n) ==
  {g \in [1..n -> 1..n] :
     /\ n > 0 => g[1] = 1
     /\ \A i \in 1..(n - 1) : g[i + 1] \in {g[i], g[i] + 1}}

GroupCount(g, n) == IF n = 0 THEN 0 ELSE g[n]

RECURSIVE Pick(_, _, _, _)
\* the instructions of group k, in input order, from position i on
Pick(g, k, i, n) ==
  IF i > n THEN <<>>
  ELSE IF g[i] = k THEN <<instructionsWithSigners[i]>> \o Pick(g, k, i + 1, n)
  ELSE Pick(g, k, i + 1, n)

FeasibleGroupMaps ==
  LET n == Len(instructionsWithSigners)
  IN {g \in GroupMaps(n) : \A k \in 1..GroupCount(g, n) : Feasible(Pick(g, k, 1, n))}

NoSmallerPartition ==
  LET n == Len(instructionsWithSigners)
  IN \A g \in FeasibleGroupMaps : GroupCount(g, n) >= Len(output)

\* C5 as stated: no partition of the input into consecutive groups that all
\* pass the packer's feasibility test has fewer groups than the packer emits
\* batches, whatever candidate tables are supplied.
C5_MinimumBatches == PackedOk => NoSmallerPartition

\* C5 amended: with at most one candidate table no feasible partition has
\* fewer groups than the packer emits batches, and when the cap exceeds the
\* number of scaffolding instructions the emitted batches are themselves
\* such a partition, so their number is the minimum.
C5_MinimumWithOneTable ==
  (PackedOk /\ Len(lookupTables) <= 1) =>
    /\ NoSmallerPartition
    /\ maxInstructionCount > Len(beforeIxsWithSigners) + Len(afterIxsWithSigners)
         => \A j \in 1..Len(output) :
              /\ Feasible(Unwrapped(output[j]))
              /\ Len(Unwrapped(output[j])) > 0

C5_Witness ==
  /\ PackedOk
  /\ Len(lookupTables) = 1
  /\ Len(output) = 2
  /\ Len(instructionsWithSigners) = MaxLen
  /\ maxInstructionCount > Len(beforeIxsWithSigners) + Len(afterIxsWithSigners)
  /\ Cardinality(FeasibleGroupMaps) >= 2

\* C6: every emitted batch starts with the before-instructions in their
\* order and ends with the after-instructions in their order, the input
\* instructions of the batch lying between the two blocks.
C6_Sandwich ==
  pc \in {"loop", "packed"} =>
    \A j \in 1..Len(output) :
      LET b == output[j].instructions
      IN /\ Len(b) >= Len(beforeIxsWithSigners) + Len(afterIxsWithSigners)
         /\ SubSeq(b, 1, Len(beforeIxsWithSigners)) = beforeIxsWithSigners
         /\ SubSeq(b, Len(b) - Len(afterIxsWithSigners) + 1, Len(b)) = afterIxsWithSigners
         /\ \A k \in 1..Len(Unwrapped(output[j])) :
              \E i \in 1..Len(instructionsWithSigners) :
                Unwrapped(output[j])[k] = instructionsWithSigners[i]

C6_Witness ==
  /\ PackedOk
  /\ Len(beforeIxsWithSigners) > 0
  /\ Len(afterIxsWithSigners) > 0
  /\ Len(output) >= 2
  /\ \E j \in 1..Len(output) : Len(Unwrapped(output[j])) >= 2

\* the scaffolding alone exceeds the byte budget or the key budget
ScaffoldOverflows ==
  \/ Estimate(Wrapped(<<>>)).size > MAX_TRANSACTION_SIZE
  \/ Cardinality(BatchKeys(Wrapped(<<>>))) > MAX_UNIQUE_KEYS_COUNT

\* C7: when the scaffolding alone exceeds a budget the packer fails with a
\* scaffolding error straight after the seed test: no input instruction has
\* been looked at and no batch has been emitted.
C7_ScaffoldFailsFirst ==
  (pc # "start" /\ ScaffoldOverflows) =>
    /\ pc \in {"packed", "returned"}
    /\ packResult.status = "err"
    /\ packResult.error \in {ScaffoldTooBig, ScaffoldTooManyKeys}
    /\ output = <<>>
    /\ next = 1

C7_Witness ==
  /\ pc = "packed"
  /\ ScaffoldOverflows
  /\ packResult.error = ScaffoldTooBig
  /\ Len(instructionsWithSigners) > 0

\* C8: an instruction that with the scaffolding references more than 128
\* unique keys makes the packer fail with the key-overflow error.
C8_KeyOverflowError ==
  (/\ pc = "packed"
   /\ packResult.status = "err"
   /\ ~ScaffoldOverflows
   /\ Cardinality(BatchKeys(Wrapped(<<instructionsWithSigners[next]>>)))
        > MAX_UNIQUE_KEYS_COUNT)
    => packResult.error = IxTooManyKeys

\* the whole input in its scaffolding
WholeSet == Wrapped(instructionsWithSigners)

\* C9 as stated: a set with exactly 128 unique keys packs into one batch.
C9_Exactly128OneBatch ==
  (/\ pc = "packed"
   /\ Len(instructionsWithSigners) > 0
   /\ Cardinality(BatchKeys(WholeSet)) = MAX_UNIQUE_KEYS_COUNT)
    => (packResult.status = "ok" /\ Len(output) = 1)

\* the first candidate table holds every key of the set that is neither a
\* signer nor a program id, and the set sized with that one table stays
\* below the byte budget
FirstTableCovers ==
  /\ Len(lookupTables) > 0
  /\ LutEligibleKeys(WholeSet, FeePayer) \subseteq Range(lookupTables[1].addresses)
  /\ totalSize([staticSize |-> StaticSize(WholeSet, FeePayer),
                staticAccounts |-> Cardinality(IneligibleKeys(WholeSet, FeePayer))],
               1, Cardinality(LutEligibleKeys(WholeSet, FeePayer)), 0)
       < MAX_TRANSACTION_SIZE

\* C9 amended: a non-empty set with exactly 128 unique keys packs into one
\* batch when the first candidate table covers its compressible keys, its
\* size with that table is below 1232 and it is within the instruction cap.
C9_Exactly128WithTable ==
  (/\ pc = "packed"
   /\ Len(instructionsWithSigners) > 0
   /\ Cardinality(BatchKeys(WholeSet)) = MAX_UNIQUE_KEYS_COUNT
   /\ FirstTableCovers
   /\ Len(WholeSet) <= maxInstructionCount)
    => (packResult.status = "ok" /\ Len(output) = 1)

C9_Witness ==
  /\ PackedOk
  /\ Len(instructionsWithSigners) >= 2
  /\ Cardinality(BatchKeys(WholeSet)) = MAX_UNIQUE_KEYS_COUNT
  /\ FirstTableCovers
  /\ Len(output) = 1
  /\ Len(output[1].lookupTables) = 1

\* C10: a packing failure reaches the caller of every entry point as a
\* failure value, never as an exception.
C10_FailureIsValue ==
  (pc = "returned" /\ packResult.status = "err") => outcome = "err"

\* C12: the uniqueKeyCount the estimator returns for a batch equals the
\* number of distinct keys the batch references (fee payer and signers,
\* program ids and the remaining keys), with tables selected or without.
C12_UniqueKeyCount ==
  PackedOk =>
    \A j \in 1..Len(output) :
      Estimate(output[j].instructions).uniqueKeyCount
        = Cardinality(BatchKeys(output[j].instructions))

-----------------------------------------------------------------------------
(* The size estimate against the serialized transaction *)

Cosigner == 2

\* an instruction of another program signed by a second signer, 700 data bytes
IxCosigned == Ix(5, <<Meta(Cosigner, TRUE), Meta(12, FALSE), Meta(14, FALSE)>>, 700, {Cosigner})
\* key 12 signs here and is a plain account elsewhere, program 5 is passed
\* as an account, key 23 is passed twice
IxCrossed == Ix(4, <<Meta(12, TRUE), Meta(5, FALSE), Meta(23, FALSE), Meta(23, FALSE)>>, 10, {12})

SizeKinds == {IxBig, IxMid, IxTail, IxWide128, IxCosigned, IxCrossed}

\* the length of a compact-u16 on the wire
shortvecLength(n) == IF n < 128 THEN 1 ELSE IF n < 16384 THEN 2 ELSE 3

\* CompiledKeys.compile: the keys that sign and the keys that are invoked
CompiledSigners(ixs, payer) ==
  {payer} \cup
  {k \in AllMetaKeys(ixs) :
     \E j \in 1..Len(ixs) : \E m \in 1..Len(ixs[j].instruction.keys) :
       /\ ixs[j].instruction.keys[m].pubkey = k
       /\ ixs[j].instruction.keys[m].isSigner}

CompiledInvoked(ixs) == {ixs[j].instruction.programId : j \in 1..Len(ixs)}

CompiledKeys(ixs, payer) == {payer} \cup CompiledInvoked(ixs) \cup AllMetaKeys(ixs)

\* extractTableLookup over addressLookupTableAccounts in order: each table
\* drains the keys it holds that neither sign nor are invoked; a table that
\* drains nothing adds no lookup. The account metas' isWritable flag is not
\* modelled: the drained keys of a table are its writable and readonly
\* indexes together.
RECURSIVE extractTableLookups(_, _)
extractTableLookups(drainable, tables) ==
  IF Len(tables) = 0 THEN <<>>
  ELSE LET drained == drainable \cap Range(Head(tables).addresses)
           rest == extractTableLookups(drainable \ drained, Tail(tables))
       IN IF drained = {} THEN rest
          ELSE <<[accountKey |-> Head(tables).key, drained |-> drained]>> \o rest

\* MessageV0.compile(compileArgs)
MessageV0Compile(ixs, payer, tables) ==
  LET signerKeys == CompiledSigners(ixs, payer)
      drainable == CompiledKeys(ixs, payer) \ (signerKeys \cup CompiledInvoked(ixs))
      lookups == extractTableLookups(drainable, tables)
      drainedKeys == UNION {lookups[j].drained : j \in 1..Len(lookups)}
  IN [numRequiredSignatures |-> Cardinality(signerKeys),
      staticAccountKeys |-> Cardinality(CompiledKeys(ixs, payer) \ drainedKeys),
      compiledInstructions |->
        [j \in 1..Len(ixs) |->
           [accountKeyIndexes |-> Len(ixs[j].instruction.keys),
            data |-> ixs[j].instruction.dataLen]],
      addressTableLookups |-> lookups]

RECURSIVE SumOver(_, _)
SumOver(f, n) == IF n = 0 THEN 0 ELSE f[n] + SumOver(f, n - 1)

\* MessageV0.serialize: prefix, header, static keys, blockhash,
\* instructions, address table lookups
MessageLength(message) ==
  LET ixLen == [j \in 1..Len(message.compiledInstructions) |->
                  1 + shortvecLength(message.compiledInstructions[j].accountKeyIndexes)
                    + message.compiledInstructions[j].accountKeyIndexes
                    + shortvecLength(message.compiledInstructions[j].data)
                    + message.compiledInstructions[j].data]
      lookupLen == [j \in 1..Len(message.addressTableLookups) |->
                      32 + shortvecLength(Cardinality(message.addressTableLookups[j].drained))
                         + Cardinality(message.addressTableLookups[j].drained)
                         + shortvecLength(0)]
  IN 1 + 3
       + shortvecLength(message.staticAccountKeys) + 32 * message.staticAccountKeys
       + 32
       + shortvecLength(Len(message.compiledInstructions))
       + SumOver(ixLen, Len(message.compiledInstructions))
       + shortvecLength(Len(message.addressTableLookups))
       + SumOver(lookupLen, Len(message.addressTableLookups))

\* VersionedTransaction.serialize().length: the signatures, then the message
SerializedLength(message) ==
  shortvecLength(message.numRequiredSignatures)
    + 64 * message.numRequiredSignatures
    + MessageLength(message)

\* a call that leaves the packer alone
PackIdle ==
  /\ beforeIxsWithSigners = <<>>
  /\ afterIxsWithSigners = <<>>
  /\ maxInstructionCount = DefaultMaxInstructionCount
  /\ current = [instructions |-> <<>>, lookupTables |-> <<>>]
  /\ output = <<>>
  /\ next = 1
  /\ packResult = NoResult
  /\ transactions = <<>>
  /\ outcome = "none"

packVars == <<beforeIxsWithSigners, afterIxsWithSigners, maxInstructionCount, current, output, next, packResult, transactions, outcome>>

SizeInit ==
  /\ entry = "getTransactionSize"
  /\ instructionsWithSigners \in SeqsUpTo(SizeKinds, MaxLen)
  /\ lookupTables \in LookupTableChoices
  /\ pc = "start"
  /\ PackIdle
  /\ SizeIdle
  /\ SignIdle
  /\ SendIdle
  /\ LaterIdle

\* the estimate of a batch, and the transaction compiled from the same
\* instructions, fee payer and the tables the estimate names
MeasureBatch ==
  /\ pc = "start"
  /\ LET est == getTransactionSize(instructionsWithSigners, FeePayer, buildLookupTableSet(lookupTables))
     IN /\ estimate' = est
        /\ serialized' = SerializedLength(MessageV0Compile(instructionsWithSigners, FeePayer, est.lookupTables))
  /\ pc' = "measured"
  /\ UNCHANGED <<entry, instructionsWithSigners, lookupTables, packVars, signVars, sendVars, laterVars>>

SizeNext == MeasureBatch

SizeSpec == SizeInit /\ [][SizeNext]_vars

\* the measured instructions are a batch: within the size and key budgets
MeasuredBatch ==
  /\ pc = "measured"
  /\ estimate.size <= MAX_TRANSACTION_SIZE
  /\ Cardinality(BatchKeys(instructionsWithSigners)) <= MAX_UNIQUE_KEYS_COUNT

\* C11: for every batch, with or without lookup tables, the size returned
\* by getTransactionSize equals the byte length of the serialized signed v0
\* transaction built from the same instructions, fee payer and the tables
\* the estimator chose.
C11_EstimateIsSerializedLength == MeasuredBatch => estimate.size = serialized

\* a batch with a second signer that fits only with a table, one table
\* having been passed over
C11_Witness ==
  /\ MeasuredBatch
  /\ Cosigner \in CompiledSigners(instructionsWithSigners, FeePayer)
  /\ Len(estimate.lookupTables) = 1
  /\ estimate.lookupTables[1].key = 902
  /\ estimate.size = serialized

-----------------------------------------------------------------------------
(* The signer map and the two signing passes:
   buildTransactionsFromIxWithSigners and signTransactionReturns *)

Third == 3
Stranger == 4

\* the signers of these instructions are listed in order
IxTransfer2 == Ix(6, <<Meta(Cosigner, TRUE), Meta(20, FALSE)>>, 12, <<Cosigner>>)
IxTransfer3 == Ix(6, <<Meta(Third, TRUE), Meta(20, FALSE)>>, 12, <<Third>>)
\* signed by three signers, the fee payer among them
IxJoint == Ix(7, <<Meta(Third, TRUE), Meta(Cosigner, TRUE), Meta(FeePayer, TRUE)>>, 4, <<Third, Cosigner, FeePayer>>)
IxPlain == Ix(7, <<Meta(20, FALSE)>>, 4, <<>>)
\* declares a signer that none of its account metas marks as one
IxMisdeclared == Ix(7, <<Meta(20, FALSE)>>, 4, <<Stranger>>)

\* BuildTransactionsType
Build(ixs) == [ixs |-> ixs, lookupTables |-> <<>>]

SignBatches == {Build(<<IxPlain>>), Build(<<IxTransfer2>>), Build(<<IxTransfer3, IxTransfer2>>), Build(<<IxJoint>>), Build(<<IxPlain, IxMisdeclared>>), Build(<<IxTransfer3>>)}

\* the signers that can be wallets; Stranger is a keypair
WalletChoices == SUBSET {FeePayer, Cosigner, Third}

FeePayerSigner == [form |-> "signer", key |-> FeePayer]
FeePayerKey == [form |-> "key", key |-> FeePayer]

BuildEntry == "buildTransactionsFromIxWithSigners"
BuildAndSignEntry == "buildAndSignTransactionsFromIxWithSigners"

\* instructions.flatMap((ix) => ix.signers)
RECURSIVE flatMapSigners(_)
flatMapSigners(ixs) == IF Len(ixs) = 0 THEN <<>> ELSE Head(ixs).signers \o flatMapSigners(Tail(ixs))

\* signers.get(key) !== undefined
HasEntry(map, key) == \E p \in 1..Len(map) : map[p].signer = key

\* an add that forgets the indices already held
AddIndex_Replace(indices, index) == {index}

\* signerEntry.transactions.add(index)
AddIndex(indices, index) == indices \cup {index}

\* the body of the loop over a transaction's signers
Register(map, key, index) ==
  IF HasEntry(map, key)
  THEN [p \in 1..Len(map) |->
          IF map[p].signer = key
          THEN [signer |-> key, transactions |-> AddIndex(map[p].transactions, index)]
          ELSE map[p]]
  ELSE Append(map, [signer |-> key, transactions |-> {index}])

RECURSIVE RegisterEach(_, _, _)
RegisterEach(map, keys, index) ==
  IF Len(keys) = 0 THEN map
  ELSE RegisterEach(Register(map, Head(keys), index), Tail(keys), index)

\* transactions.map(async (..., index) => ...): each callback runs its
\* signer loop before its first await, so the transactions register in
\* order. Indices count from 1 here.
RECURSIVE RegisterFrom(_, _, _)
RegisterFrom(map, txs, index) ==
  IF index > Len(txs) THEN map
  ELSE RegisterFrom(RegisterEach(map, flatMapSigners(txs[index].ixs), index), txs, index + 1)

\* the entry set up front when the fee payer is given as a signer
FeePayerEntry(txs, payer) ==
  IF payer.form = "signer"
  THEN <<[signer |-> payer.key, transactions |-> 1..Len(txs)]>>
  ELSE <<>>

\* the SignerMap that buildTransactionsFromIxWithSigners returns
buildSignerMap(txs, payer) == RegisterFrom(FeePayerEntry(txs, payer), txs, 1)

\* the transaction compiled from one build: which message it is, the keys
\* that must sign it and the keys that have signed it
convertBuildTransactionReturn(build, index, payer) ==
  [message |-> index,
   signerKeys |-> CompiledSigners(build.ixs, payer.key),
   signatures |-> {}]

RequiresAsync(key) == key \in asyncSigners

RECURSIVE Ascending(_)
Ascending(S) ==
  IF S = {} THEN <<>>
  ELSE LET least == CHOOSE x \in S : \A y \in S : x <= y
       IN <<least>> \o Ascending(S \ {least})

\* a filter that lets every transaction through
TxsToSign_All(unsigned, signerEntry) == Ascending(1..Len(unsigned))

\* txsToSign: the positions of the transactions whose index the entry holds
TxsToSign(unsigned, signerEntry) ==
  Ascending({i \in 1..Len(unsigned) : i \in signerEntry.transactions})

\* VersionedTransaction.sign refuses a key that is not a signer of the message
CanSign(tx, key) == key \in tx.signerKeys

Signed(tx, key) == [tx EXCEPT !.signatures = @ \cup {key}]

\* a keypair's signAll: signs the transactions in place, in order, and stops
\* at the first one that refuses its key
RECURSIVE PartialSignEach(_, _, _)
PartialSignEach(unsigned, positions, key) ==
  IF Len(positions) = 0 THEN unsigned
  ELSE IF ~CanSign(unsigned[Head(positions)], key) THEN unsigned
  ELSE PartialSignEach([unsigned EXCEPT ![Head(positions)] = Signed(@, key)],
                       Tail(positions), key)

\* a write back that uses the position in newTxs as the index
WriteBack_ByPosition(unsigned, txsToSign, newTxs) ==
  [i \in 1..Len(unsigned) |-> IF i <= Len(newTxs) THEN newTxs[i] ELSE unsigned[i]]

\* unsignedTransactions[txsToSign[x].index].transaction = newTxs[x]
WriteBack(unsigned, txsToSign, newTxs) ==
  [i \in 1..Len(unsigned) |->
     IF \E x \in 1..Len(txsToSign) : txsToSign[x] = i
     THEN newTxs[CHOOSE x \in 1..Len(txsToSign) : txsToSign[x] = i]
     ELSE unsigned[i]]

\* the first loop takes the requiresAsync signers, the second the others
InPass(signerEntry) == RequiresAsync(signerEntry.signer) = (pc = "async")

\* a loop that does not wait for the signer it called
Awaited_FireAndForget == TRUE

\* await signTxns(signer): the loop goes on when the pending call is over
Awaited == inFlight = {}

SignInit ==
  /\ entry \in {BuildEntry, BuildAndSignEntry}
  /\ feePayer \in (IF entry = BuildEntry THEN {FeePayerSigner, FeePayerKey} ELSE {FeePayerSigner})
  /\ asyncSigners \in (IF entry = BuildEntry THEN {{}} ELSE WalletChoices)
  /\ transactions \in SeqsUpTo(SignBatches, MaxLen)
  /\ instructionsWithSigners = <<>>
  /\ beforeIxsWithSigners = <<>>
  /\ afterIxsWithSigners = <<>>
  /\ lookupTables = <<>>
  /\ maxInstructionCount = DefaultMaxInstructionCount
  /\ pc = "start"
  /\ current = [instructions |-> <<>>, lookupTables |-> <<>>]
  /\ output = <<>>
  /\ next = 1
  /\ packResult = NoResult
  /\ outcome = "none"
  /\ SizeIdle
  /\ SendIdle
  /\ LaterIdle
  /\ signers = <<>>
  /\ unsignedTransactions = <<>>
  /\ cursor = 1
  /\ inFlight = {}
  /\ calls = <<>>

signInputs == <<entry, instructionsWithSigners, beforeIxsWithSigners, afterIxsWithSigners, lookupTables, maxInstructionCount, current, output, next, packResult, transactions, outcome, sizeVars, sendVars, laterVars, feePayer, asyncSigners>>

\* buildTransactionsFromIxWithSigners, and for the signing entry point the
\* compile of every build
BuildTransactions ==
  /\ pc = "start"
  /\ signers' = buildSignerMap(transactions, feePayer)
  /\ IF entry = BuildAndSignEntry
     THEN /\ unsignedTransactions' =
               [i \in 1..Len(transactions) |->
                  convertBuildTransactionReturn(transactions[i], i, feePayer)]
          /\ pc' = "async"
     ELSE /\ unsignedTransactions' = <<>>
          /\ pc' = "returned"
  /\ UNCHANGED <<signInputs, cursor, inFlight, calls>>

\* signTxns up to its await: the next signer of the running pass is handed
\* its transactions. A keypair signs before signAll returns its promise.
SignAllCall ==
  /\ pc \in {"async", "local"}
  /\ Awaited
  /\ \E p \in cursor..Len(signers) :
       /\ InPass(signers[p])
       /\ \A q \in cursor..(p - 1) : ~InPass(signers[q])
       /\ LET signerEntry == signers[p]
              txsToSign == TxsToSign(unsignedTransactions, signerEntry)
          IN /\ calls' = Append(calls,
                  [signer |-> signerEntry.signer,
                   method |-> "signAll",
                   messages |-> [x \in 1..Len(txsToSign) |->
                                   unsignedTransactions[txsToSign[x]].message]])
             /\ IF RequiresAsync(signerEntry.signer)
                THEN /\ inFlight' = inFlight \cup {p}
                     /\ UNCHANGED <<unsignedTransactions, pc>>
                ELSE /\ unsignedTransactions' =
                          PartialSignEach(unsignedTransactions, txsToSign, signerEntry.signer)
                     /\ IF \A x \in 1..Len(txsToSign) :
                             CanSign(unsignedTransactions[txsToSign[x]], signerEntry.signer)
                        THEN inFlight' = inFlight \cup {p} /\ pc' = pc
                        ELSE inFlight' = inFlight /\ pc' = "threw"
       /\ cursor' = p + 1
  /\ UNCHANGED <<signInputs, signers>>

\* signTxns after its await: the returned transactions are written back
SignAllReturn ==
  /\ pc \in {"async", "local"}
  /\ \E p \in inFlight :
       LET signerEntry == signers[p]
           txsToSign == TxsToSign(unsignedTransactions, signerEntry)
           newTxs == [x \in 1..Len(txsToSign) |->
                        IF RequiresAsync(signerEntry.signer)
                        THEN Signed(unsignedTransactions[txsToSign[x]], signerEntry.signer)
                        ELSE unsignedTransactions[txsToSign[x]]]
       IN /\ unsignedTransactions' = WriteBack(unsignedTransactions, txsToSign, newTxs)
          /\ inFlight' = inFlight \ {p}
  /\ UNCHANGED <<signInputs, signers, pc, cursor, calls>>

\* a wallet refuses: its signAll rejects and the call raises
SignAllReject ==
  /\ pc \in {"async", "local"}
  /\ \E p \in inFlight :
       /\ RequiresAsync(signers[p].signer)
       /\ inFlight' = inFlight \ {p}
  /\ pc' = "threw"
  /\ UNCHANGED <<signInputs, signers, unsignedTransactions, cursor, calls>>

\* a for loop over signers.values() runs out
EndPass ==
  /\ pc \in {"async", "local"}
  /\ Awaited
  /\ \A p \in cursor..Len(signers) : ~InPass(signers[p])
  /\ pc' = IF pc = "async" THEN "local" ELSE "signed"
  /\ cursor' = 1
  /\ UNCHANGED <<signInputs, signers, unsignedTransactions, inFlight, calls>>

SignNext ==
  \/ BuildTransactions
  \/ SignAllCall
  \/ SignAllReturn
  \/ SignAllReject
  \/ EndPass

SignSpec == SignInit /\ [][SignNext]_vars

-----------------------------------------------------------------------------
(* Properties of the signer map and of signing *)

SignerKeys == {FeePayer, Cosigner, Third, Stranger}

\* the signer map has been built
MapBuilt == entry \in {BuildEntry, BuildAndSignEntry} /\ pc # "start"

\* the batch indices the map holds for a signer identity
MappedTo(key) ==
  UNION {signers[p].transactions : p \in {q \in 1..Len(signers) : signers[q].signer = key}}

\* the batch indices whose instructions declare the identity as a signer
DeclaringIndices(key) ==
  {i \in 1..Len(transactions) :
     \E j \in 1..Len(transactions[i].ixs) :
       key \in Range(transactions[i].ixs[j].signers)}

AllIndices == 1..Len(transactions)

OthersMappedAsDeclared ==
  \A key \in SignerKeys \ {feePayer.key} :
    /\ MappedTo(key) = DeclaringIndices(key)
    /\ HasEntry(signers, key) <=> DeclaringIndices(key) # {}

\* C13 as stated: the fee payer is always mapped to every batch index, and
\* every other signer identity to exactly the indices of the batches whose
\* instructions declare it as a signer.
C13_SignerAssignment ==
  MapBuilt => (MappedTo(feePayer.key) = AllIndices /\ OthersMappedAsDeclared)

\* C13 amended: when the fee payer is given as a signer, it is mapped to
\* every batch index and every other signer identity to exactly the indices
\* of the batches whose instructions declare it; a fee payer given as a bare
\* key is mapped like any other identity.
C13_SignerAssignmentOfSigner ==
  MapBuilt =>
    /\ OthersMappedAsDeclared
    /\ MappedTo(feePayer.key) =
         (IF feePayer.form = "signer" THEN AllIndices ELSE DeclaringIndices(feePayer.key))

\* three batches, a signer declared by the first and the third only
C13_Witness ==
  /\ MapBuilt
  /\ feePayer.form = "signer"
  /\ Len(transactions) = 3
  /\ MappedTo(FeePayer) = {1, 2, 3}
  /\ MappedTo(Cosigner) = {1, 3}
  /\ MappedTo(Third) = {2}

\* signAll has been called on the identity / has not come back / is over
Called(key) == \E c \in 1..Len(calls) : calls[c].signer = key
Pending(key) == \E p \in inFlight : signers[p].signer = key
Completed(key) == Called(key) /\ ~Pending(key)

\* C14: signing runs in two strictly ordered passes: no local signer's
\* signAll is invoked before every signer with requiresAsync() = true has
\* completed its signAll, and at most one signAll call is in flight at any
\* time.
C14_TwoOrderedPasses ==
  entry = BuildAndSignEntry =>
    /\ Cardinality(inFlight) <= 1
    /\ (\E c \in 1..Len(calls) : ~RequiresAsync(calls[c].signer))
         => \A p \in 1..Len(signers) :
              RequiresAsync(signers[p].signer) => Completed(signers[p].signer)

\* the fee payer, first in the map, is a keypair and signs after two wallets
C14_Witness ==
  /\ entry = BuildAndSignEntry
  /\ pc = "signed"
  /\ asyncSigners = {Cosigner, Third}
  /\ Len(calls) = 3
  /\ signers[1].signer = FeePayer
  /\ calls[3].signer = FeePayer
  /\ RequiresAsync(calls[1].signer)
  /\ RequiresAsync(calls[2].signer)

\* C15: during one build-and-sign call each distinct signer identity is
\* invoked at most once, through a single signAll call that carries exactly
\* the messages of the batch indices assigned to it; sign() is never called.
C15_OneSignAllPerSigner ==
  entry = BuildAndSignEntry =>
    /\ \A c, d \in 1..Len(calls) : calls[c].signer = calls[d].signer => c = d
    /\ \A c \in 1..Len(calls) :
         /\ calls[c].method = "signAll"
         /\ calls[c].messages = Ascending(MappedTo(calls[c].signer))

\* three signers have signed three batches, one of them the first and the
\* third batch only
C15_Witness ==
  /\ entry = BuildAndSignEntry
  /\ pc = "signed"
  /\ Len(transactions) = 3
  /\ Len(calls) = 3
  /\ \E c \in 1..Len(calls) : calls[c].messages = <<1, 3>>
  /\ \E c \in 1..Len(calls) : calls[c].messages = <<2>>

\* the signers a batch requires: the fee payer and every signer its
\* instructions declare
RequiredSigners(i) ==
  {feePayer.key} \cup {key \in SignerKeys : i \in DeclaringIndices(key)}

-----------------------------------------------------------------------------
(* Submission: verifySignatures and sendTransaction *)

\* the interval callback may fire any number of times; the model follows it
\* for MaxTicks firings
MaxTicks == 12

\* a signature slot holds a verifying signature, 64 zero bytes, or bytes
\* that do not verify
SlotStates == {"valid", "zero", "bad"}

TransactionChoices ==
  {[format |-> f, signatures |-> sigs] :
     f \in {"versioned", "legacy"}, sigs \in SeqsUpTo(SlotStates, 2) \ {<<>>}}

MaxRetriesChoices == {0, 1, DefaultMaxRetries}

\* transaction.serialize(): the format marker, then the signature slots
Serialize(tx) == <<tx.format>> \o tx.signatures

isVersionedTransaction(tx) == tx.format = "versioned"

\* a check that lets every signature through
verifySignatures_Unchecked(tx) == "ok"

\* verifySignatures on a versioned transaction: the error of the first slot
\* that is all zero or does not verify
verifySignatures(tx) ==
  LET failing == {i \in 1..Len(tx.signatures) : tx.signatures[i] # "valid"}
  IN IF failing = {} THEN "ok"
     ELSE LET first == CHOOSE i \in failing : \A j \in failing : i <= j
          IN IF tx.signatures[first] = "zero"
             THEN "Missing required signature"
             ELSE "Signature failed to verify"

\* a guard that lets one more resend through
RetryAllowed_Inclusive(n, retries) == n <= retries

\* if (count < maxRetries)
RetryAllowed(n, retries) == n < retries

\* an interval that is only cleared when confirmTransaction resolves
IntervalAfterConfirm_NoFinally(threw) == threw

\* finally { clearInterval(interval) }: whether the interval is still set
IntervalAfterConfirm(threw) == FALSE

\* a return that reports success whatever the confirmation says
ReturnValue_AlwaysOk(confirmation, sig) ==
  [status |-> "ok", signature |-> sig, error |-> ""]

\* err(result.value.err) or ok(signature)
ReturnValue(confirmation, sig) ==
  IF confirmation.err # "null"
  THEN [status |-> "err", signature |-> NoSignature, error |-> confirmation.err]
  ELSE [status |-> "ok", signature |-> sig, error |-> ""]

Raised(message) == [status |-> "raised", signature |-> NoSignature, error |-> message]

SendInit ==
  /\ entry = "sendTransaction"
  /\ transaction \in TransactionChoices
  /\ sendOptions \in {[skipPreflight |-> FALSE], [skipPreflight |-> TRUE]}
  /\ maxRetries \in MaxRetriesChoices
  /\ instructionsWithSigners = <<>>
  /\ lookupTables = <<>>
  /\ pc = "start"
  /\ PackIdle
  /\ SizeIdle
  /\ SignIdle
  /\ LaterIdle
  /\ rawTransaction = <<>>
  /\ checked = FALSE
  /\ signature = NoSignature
  /\ count = 0
  /\ interval = FALSE
  /\ broadcasts = <<>>
  /\ result = NoConfirmation
  /\ returned = NotReturned
  /\ unhandled = 0

sendInputs == <<entry, instructionsWithSigners, lookupTables, packVars, sizeVars, signVars, laterVars, transaction, sendOptions, maxRetries>>

\* serialize, then verifySignatures when the transaction is versioned. What
\* serialize() of a legacy transaction does with a bad signature is the
\* library's: it may refuse or hand out the bytes.
Verify ==
  /\ pc = "start"
  /\ rawTransaction' = Serialize(transaction)
  /\ IF isVersionedTransaction(transaction)
     THEN /\ checked' = TRUE
          /\ IF verifySignatures(transaction) = "ok"
             THEN pc' = "verified" /\ returned' = returned
             ELSE pc' = "raised" /\ returned' = Raised(verifySignatures(transaction))
     ELSE /\ checked' = checked
          /\ \/ pc' = "verified" /\ returned' = returned
             \/ /\ \E i \in 1..Len(transaction.signatures) : transaction.signatures[i] # "valid"
                /\ pc' = "raised"
                /\ returned' = Raised("Signature verification failed")
  /\ UNCHANGED <<sendInputs, signature, count, interval, broadcasts, result, unhandled>>

\* the first connection.sendRawTransaction(rawTransaction, options?.sendOptions)
FirstSend ==
  /\ pc = "verified"
  /\ broadcasts' = Append(broadcasts,
       [raw |-> rawTransaction, skipPreflight |-> sendOptions.skipPreflight, resend |-> FALSE])
  /\ pc' = "sending"
  /\ UNCHANGED <<sendInputs, rawTransaction, checked, signature, count, interval, result, returned, unhandled>>

\* the first send resolves: the interval is set and confirmTransaction called
SendResolves ==
  /\ pc = "sending"
  /\ signature' = [raw |-> broadcasts[1].raw, broadcast |-> 1]
  /\ count' = 0
  /\ interval' = TRUE
  /\ pc' = "confirming"
  /\ UNCHANGED <<sendInputs, rawTransaction, checked, broadcasts, result, returned, unhandled>>

\* the first send rejects: sendTransaction raises before any interval is set
SendRejects ==
  /\ pc = "sending"
  /\ pc' = "raised"
  /\ returned' = Raised("sendRawTransaction failed")
  /\ UNCHANGED <<sendInputs, rawTransaction, checked, signature, count, interval, broadcasts, result, unhandled>>

\* the interval callback: the promise of the re-broadcast is dropped
\* (void), so when it rejects nothing handles the rejection and the
\* interval goes on
Tick ==
  /\ interval
  /\ count < MaxTicks
  /\ IF RetryAllowed(count, maxRetries)
     THEN /\ broadcasts' = Append(broadcasts, [raw |-> rawTransaction, skipPreflight |-> TRUE, resend |-> TRUE])
          /\ \E rejects \in BOOLEAN : unhandled' = IF rejects THEN unhandled + 1 ELSE unhandled
     ELSE UNCHANGED <<broadcasts, unhandled>>
  /\ count' = count + 1
  /\ UNCHANGED <<sendInputs, pc, rawTransaction, checked, signature, interval, result, returned>>

\* confirmTransaction resolves, with or without an on-chain error
ConfirmResolves ==
  /\ pc = "confirming"
  /\ \E e \in {"null", "InstructionError"} :
       /\ result' = [status |-> "resolved", err |-> e]
       /\ returned' = ReturnValue(result', signature)
  /\ interval' = IntervalAfterConfirm(FALSE)
  /\ pc' = "returned"
  /\ UNCHANGED <<sendInputs, rawTransaction, checked, signature, count, broadcasts, unhandled>>

\* confirmTransaction rejects: the exception leaves sendTransaction
ConfirmRejects ==
  /\ pc = "confirming"
  /\ result' = [status |-> "rejected", err |-> "null"]
  /\ returned' = Raised("confirmTransaction failed")
  /\ interval' = IntervalAfterConfirm(TRUE)
  /\ pc' = "raised"
  /\ UNCHANGED <<sendInputs, rawTransaction, checked, signature, count, broadcasts, unhandled>>

SendNext ==
  \/ Verify
  \/ FirstSend
  \/ SendResolves
  \/ SendRejects
  \/ Tick
  \/ ConfirmResolves
  \/ ConfirmRejects

SendSpec == SendInit /\ [][SendNext]_vars

-----------------------------------------------------------------------------
(* Properties of submission *)

Sending == entry = "sendTransaction"

AllValid(tx) == \A i \in 1..Len(tx.signatures) : tx.signatures[i] = "valid"

Exited == pc \in {"returned", "raised"}

\* C17: sendTransaction never broadcasts a versioned message with a missing
\* (all-zero) or invalid required signature: verification happens before
\* the first sendRawTransaction, and when it fails an error is raised with
\* no broadcast and no resend timer started; a legacy-format message is
\* sent without this check.
C17_VerifiedBeforeBroadcast ==
  Sending =>
    /\ (isVersionedTransaction(transaction) /\ ~AllValid(transaction)) =>
         /\ broadcasts = <<>>
         /\ ~interval
         /\ pc # "start" => (pc = "raised" /\ returned.status = "raised")
    /\ (isVersionedTransaction(transaction) /\ broadcasts # <<>>) => checked
    /\ ~isVersionedTransaction(transaction) => ~checked

\* a versioned message whose second signature slot is all zero was refused
C17_Witness ==
  /\ Sending
  /\ pc = "raised"
  /\ isVersionedTransaction(transaction)
  /\ transaction.signatures = <<"valid", "zero">>
  /\ returned = Raised("Missing required signature")
  /\ broadcasts = <<>>

\* C18: within one sendTransaction call the timer re-broadcasts the same
\* raw bytes as the initial submission, at most maxRetries times (default
\* 10), so the broadcasts are at most 1 + maxRetries however long
\* confirmation takes; each re-broadcast skips preflight.
C18_BoundedResend ==
  Sending =>
    /\ \A i \in 1..Len(broadcasts) : broadcasts[i].raw = broadcasts[1].raw
    /\ \A i \in 2..Len(broadcasts) : broadcasts[i].resend /\ broadcasts[i].skipPreflight
    /\ Len(broadcasts) >= 1 => ~broadcasts[1].resend
    /\ Len(broadcasts) <= 1 + maxRetries

\* the default ceiling has been reached and the timer has fired again
C18_Witness ==
  /\ Sending
  /\ pc = "confirming"
  /\ maxRetries = DefaultMaxRetries
  /\ ~sendOptions.skipPreflight
  /\ Len(broadcasts) = 1 + DefaultMaxRetries
  /\ count > DefaultMaxRetries + 1

\* C19: the resend timer is cancelled on every exit path of sendTransaction
\* once it has been started: after sendTransaction has returned or raised
\* the timer is not set and no further broadcast is made.
C19_TimerCancelledOnExit ==
  /\ [](Sending /\ Exited => ~interval)
  /\ [][Sending /\ Exited => broadcasts' = broadcasts]_vars

\* confirmTransaction raised after the timer had re-broadcast
C19_Witness ==
  /\ Sending
  /\ pc = "raised"
  /\ result.status = "rejected"
  /\ count >= 2
  /\ Len(broadcasts) >= 3
  /\ ~interval

\* C20: sendTransaction returns an on-chain failure as a failure value
\* carrying the on-chain error and never raises it, and returns a success
\* value carrying the signature of the initial submission when confirmation
\* reports no error; the timer is cancelled before the value is returned.
C20_OnChainFailureIsValue ==
  Sending =>
    /\ pc = "returned" => result.status = "resolved"
    /\ result.status = "resolved" =>
         /\ pc = "returned"
         /\ ~interval
         /\ IF result.err # "null"
            THEN returned = [status |-> "err", signature |-> NoSignature, error |-> result.err]
            ELSE returned = [status |-> "ok",
                             signature |-> [raw |-> Serialize(transaction), broadcast |-> 1],
                             error |-> ""]

\* an on-chain failure came back as a value after re-broadcasts
C20_Witness ==
  /\ Sending
  /\ pc = "returned"
  /\ result.err = "InstructionError"
  /\ returned.status = "err"
  /\ returned.error = "InstructionError"
  /\ Len(broadcasts) >= 2

-----------------------------------------------------------------------------
(* The packing scenarios of the tests: many single transfers *)

SystemProgram == 8

\* transfer(from, to, lamports): SystemProgram.transfer signed by from
Transfer(from, to) == Ix(SystemProgram, <<Meta(from, TRUE), Meta(to, FALSE)>>, 12, {from})

TransferCount == 100
KEY_COUNT == 250

\* 100 transfers, each from a signer of its own, to one destination
TransfersFromMany == [j \in 1..TransferCount |-> Transfer(1000 + j, 2000)]

\* 100 transfers from the fee payer to one destination
TransfersAlike == [j \in 1..TransferCount |-> Transfer(FeePayer, 2000)]

\* 250 transfers from the fee payer, one per destination key
TransfersToKeys == [j \in 1..KEY_COUNT |-> Transfer(FeePayer, 3000 + j)]

\* the lookup table extended with the 250 destination keys
LutToKeys == Lut(950, [j \in 1..KEY_COUNT |-> 3000 + j])

\* toKeys[i], counted from 0 as in the test
ToKey(i) == 4000 + i

\* toKeys.slice(first, last)
ToKeysSlice(first, last) == [j \in 1..(last - first) |-> ToKey(first + j - 1)]

\* the chunks of eight keys, the first two keys of chunks 0 and 16 spliced out
ToKeyChunk(c) ==
  LET first == IF c = 0 \/ c = 16 THEN 8 * c + 2 ELSE 8 * c
      last == IF 8 * c + 8 > KEY_COUNT THEN KEY_COUNT ELSE 8 * c + 8
  IN ToKeysSlice(first, last)

ChunkCount == (KEY_COUNT + 7) \div 8

\* weirdTransfer(from, to, lamports, dumbKeys): a transfer with the dumb
\* keys pushed behind its two accounts
weirdTransfer(from, to, dumbKeys) ==
  Ix(SystemProgram, <<Meta(from, TRUE), Meta(to, FALSE)>> \o [j \in 1..Len(dumbKeys) |-> Meta(dumbKeys[j], FALSE)], 12, {from})

WeirdTransfers == [c \in 1..ChunkCount |-> weirdTransfer(FeePayer, ToKeyChunk(c - 1)[1], ToKeyChunk(c - 1))]

lut1 == Lut(961, ToKeysSlice(0, 68))
lut2 == Lut(962, ToKeysSlice(25, 100))
lut3 == Lut(963, ToKeysSlice(68, 128))
lut4 == Lut(964, ToKeysSlice(128, KEY_COUNT))

ManyLuts == <<lut1, lut2, lut3, lut4>>

Scenarios ==
  {[ixs |-> TransfersFromMany, lookupTables |-> <<>>],
   [ixs |-> TransfersAlike, lookupTables |-> <<>>],
   [ixs |-> TransfersToKeys, lookupTables |-> <<LutToKeys>>],
   [ixs |-> WeirdTransfers, lookupTables |-> ManyLuts]}

ScenarioInit ==
  /\ entry = "buildDynamicTransactionsNoSigning"
  /\ \E sc \in Scenarios :
       /\ instructionsWithSigners = sc.ixs
       /\ lookupTables = sc.lookupTables
  /\ beforeIxsWithSigners = <<>>
  /\ afterIxsWithSigners = <<>>
  /\ maxInstructionCount = DefaultMaxInstructionCount
  /\ pc = "start"
  /\ current = [instructions |-> <<>>, lookupTables |-> <<>>]
  /\ output = <<>>
  /\ next = 1
  /\ packResult = NoResult
  /\ transactions = <<>>
  /\ outcome = "none"
  /\ OthersIdle

ScenarioNext ==
  \/ Seed
  \/ Step
  \/ Finish
  \/ ReturnNoSigning

ScenarioSpec == ScenarioInit /\ [][ScenarioNext]_vars

\* the number of instructions in each emitted batch
BatchLengths == [j \in 1..Len(output) |-> Len(output[j].instructions)]

HundredTransfers == instructionsWithSigners \in {TransfersFromMany, TransfersAlike}

\* C23 as stated: 100 single transfers with the default cap of 64, no
\* scaffolding and no tables pack into exactly 2 batches of 64 and 36
\* instructions, each in input order.
C23_SixtyFourAndThirtySix ==
  (PackedOk /\ HundredTransfers) =>
    /\ BatchLengths = <<64, 36>>
    /\ Flatten([j \in 1..Len(output) |-> output[j].instructions]) = instructionsWithSigners

RECURSIVE Repeat(_, _)
Repeat(x, n) == IF n = 0 THEN <<>> ELSE <<x>> \o Repeat(x, n - 1)

\* C23 amended: the size budget closes a batch before the cap of 64 does.
\* 100 transfers from 100 signers to one destination pack into 12 batches,
\* eleven of 9 and one of 1; 100 transfers from the fee payer to one
\* destination pack into 2 batches of 60 and 40; each in input order.
C23_SizeSplitsFirst ==
  (PackedOk /\ HundredTransfers) =>
    /\ instructionsWithSigners = TransfersFromMany => BatchLengths = Repeat(9, 11) \o <<1>>
    /\ instructionsWithSigners = TransfersAlike => BatchLengths = <<60, 40>>
    /\ Flatten([j \in 1..Len(output) |-> output[j].instructions]) = instructionsWithSigners

C23_Witness ==
  /\ PackedOk
  /\ instructionsWithSigners = TransfersFromMany
  /\ Len(output) = 12
  /\ Len(instructionsWithSigners) = TransferCount
  /\ maxInstructionCount = 64

\* C24: with one table that contains all 250 destination keys, packing 250
\* single transfers from the fee payer (one per destination, no
\* scaffolding, default cap) yields exactly ceil(250/59) = 5 batches, each
\* of which selects that table.
C24_FiveBatchesWithTable ==
  (PackedOk /\ instructionsWithSigners = TransfersToKeys /\ lookupTables = <<LutToKeys>>) =>
    /\ Len(output) = (KEY_COUNT + 58) \div 59
    /\ Len(output) = 5
    /\ \A j \in 1..Len(output) : output[j].lookupTables = <<LutToKeys>>
    /\ Flatten([j \in 1..Len(output) |-> output[j].instructions]) = instructionsWithSigners

C24_Witness ==
  /\ PackedOk
  /\ instructionsWithSigners = TransfersToKeys
  /\ Len(instructionsWithSigners) = KEY_COUNT
  /\ Len(output) = 5
  /\ output[5].lookupTables = <<LutToKeys>>
  /\ Len(output[5].instructions) < Len(output[1].instructions)

\* C21: a network failure of a sendRawTransaction call made by
\* sendTransaction reaches the caller of sendTransaction as a raised error,
\* for the initial submission and for every timer re-broadcast; a failed
\* re-broadcast does not stop the resend timer.
C21_SendFailureSurfaced ==
  Sending =>
    /\ (Exited /\ unhandled > 0) => returned.status = "raised"
    /\ (pc = "raised" /\ broadcasts # <<>> /\ result.status = "none")
         => returned = Raised("sendRawTransaction failed")
    /\ (pc = "confirming" /\ unhandled > 0) => interval

-----------------------------------------------------------------------------
(* Several sendTransaction calls in flight on one connection *)

\* the number of batches submitted at once
CallCount == 3

\* the interval callbacks one call runs before its confirmation settles
MaxConcurrentTicks == 2

Calls == 1..CallCount

\* the retry budget the concurrent calls are made with
ConcurrentMaxRetries == 1

\* the signed transaction of batch c: its own message behind its signature slot
BatchTransaction(c, slot) == [format |-> "versioned", signatures |-> <<slot>>, message |-> c]

\* transaction.serialize() of a batch: the signature slots, then the message
SerializeBatch(tx) == Serialize(tx) \o <<tx.message>>

\* setInterval(): the handle of the new timer joins the set ones
SetInterval(handles, h) == handles \cup {h}

\* a clearInterval that stops every timer of the process
ClearInterval_All(handles, h) == {}

\* clearInterval(interval): only the handle of this call is cleared
ClearInterval(handles, h) == handles \ {h}

NewCall(tx) == [transaction |-> tx, pc |-> "start", rawTransaction |-> <<>>, signature |-> NoSignature, count |-> 0, broadcasts |-> <<>>, result |-> NoConfirmation, returned |-> NotReturned]

ConcurrentInit ==
  /\ entry = "sendTransaction"
  /\ instructionsWithSigners = <<>>
  /\ lookupTables = <<>>
  /\ pc = "concurrent"
  /\ PackIdle
  /\ SizeIdle
  /\ SignIdle
  /\ SendIdle
  /\ OptimalIdle
  /\ BudgetIdle
  /\ RpcIdle
  /\ \E slots \in [Calls -> {"valid", "zero"}] :
       sends = [c \in Calls |-> NewCall(BatchTransaction(c, slots[c]))]
  /\ timers = {}

concurrentInputs == <<entry, instructionsWithSigners, lookupTables, pc, packVars, sizeVars, signVars, sendVars, optimalVars, budgetVars, rpcVars>>

\* call c runs up to its first await: serialize, verifySignatures, and the
\* first sendRawTransaction
Submit(c) ==
  /\ sends[c].pc = "start"
  /\ LET tx == sends[c].transaction
         raw == SerializeBatch(tx)
         verdict == IF isVersionedTransaction(tx) THEN verifySignatures(tx) ELSE "ok"
     IN sends' = [sends EXCEPT ![c] =
          IF verdict # "ok"
          THEN [@ EXCEPT !.rawTransaction = raw, !.pc = "raised", !.returned = Raised(verdict)]
          ELSE [@ EXCEPT !.rawTransaction = raw, !.pc = "sending",
                         !.broadcasts = <<[raw |-> raw, skipPreflight |-> FALSE, resend |-> FALSE]>>]]
  /\ UNCHANGED <<concurrentInputs, timers>>

\* the first send of call c resolves: its interval is set and
\* confirmTransaction called
Resolved(c) ==
  /\ sends[c].pc = "sending"
  /\ sends' = [sends EXCEPT ![c] =
       [@ EXCEPT !.signature = [raw |-> sends[c].broadcasts[1].raw, broadcast |-> 1], !.count = 0, !.pc = "confirming"]]
  /\ timers' = SetInterval(timers, c)
  /\ UNCHANGED concurrentInputs

\* the first send of call c rejects: the call raises, no interval was set
Rejected(c) ==
  /\ sends[c].pc = "sending"
  /\ sends' = [sends EXCEPT ![c] =
       [@ EXCEPT !.pc = "raised", !.returned = Raised("sendRawTransaction failed")]]
  /\ UNCHANGED <<concurrentInputs, timers>>

\* the interval callback of call c
Resend(c) ==
  /\ c \in timers
  /\ sends[c].count < MaxConcurrentTicks
  /\ sends' = [sends EXCEPT ![c] =
       [@ EXCEPT !.broadcasts = IF RetryAllowed(sends[c].count, ConcurrentMaxRetries)
                                THEN Append(@, [raw |-> sends[c].rawTransaction, skipPreflight |-> TRUE, resend |-> TRUE])
                                ELSE @,
                 !.count = @ + 1]]
  /\ UNCHANGED <<concurrentInputs, timers>>

\* confirmTransaction of call c resolves, with or without an on-chain error
Confirmed(c) ==
  /\ sends[c].pc = "confirming"
  /\ \E e \in {"null", "InstructionError"} :
       LET confirmation == [status |-> "resolved", err |-> e]
       IN sends' = [sends EXCEPT ![c] =
            [@ EXCEPT !.result = confirmation, !.returned = ReturnValue(confirmation, sends[c].signature), !.pc = "returned"]]
  /\ timers' = ClearInterval(timers, c)
  /\ UNCHANGED concurrentInputs

\* confirmTransaction of call c rejects: the exception leaves the call
ConfirmFailed(c) ==
  /\ sends[c].pc = "confirming"
  /\ sends' = [sends EXCEPT ![c] =
       [@ EXCEPT !.result = [status |-> "rejected", err |-> "null"], !.returned = Raised("confirmTransaction failed"), !.pc = "raised"]]
  /\ timers' = ClearInterval(timers, c)
  /\ UNCHANGED concurrentInputs

ConcurrentNext ==
  \E c \in Calls :
    \/ Submit(c)
    \/ Resolved(c)
    \/ Rejected(c)
    \/ Resend(c)
    \/ Confirmed(c)
    \/ ConfirmFailed(c)

ConcurrentSpec == ConcurrentInit /\ [][ConcurrentNext]_vars

SendingConcurrently == entry = "sendTransaction" /\ pc = "concurrent"

\* what call c sent first: its own serialized message
OwnSignature(c) == [raw |-> SerializeBatch(sends[c].transaction), broadcast |-> 1]

\* C22: with several batches submitted concurrently, the outcome of one
\* call never changes a sibling: every call broadcasts only its own
\* message, the value it returns is determined by its own confirmation and
\* its own signature, and its timer is set exactly while it awaits its own
\* confirmation, whatever the other calls have done.
C22_CallsAreIndependent ==
  SendingConcurrently =>
    \A c \in Calls :
      /\ c \in timers <=> sends[c].pc = "confirming"
      /\ \A i \in 1..Len(sends[c].broadcasts) :
           sends[c].broadcasts[i].raw = SerializeBatch(sends[c].transaction)
      /\ Len(sends[c].broadcasts) <= 1 + ConcurrentMaxRetries
      /\ sends[c].pc = "returned" =>
           /\ sends[c].result.status = "resolved"
           /\ sends[c].result.err = "null" =>
                sends[c].returned = [status |-> "ok", signature |-> OwnSignature(c), error |-> ""]
           /\ sends[c].result.err # "null" =>
                sends[c].returned = [status |-> "err", signature |-> NoSignature, error |-> sends[c].result.err]

\* one batch has failed on chain while a sibling still waits with its timer
\* running and has re-broadcast, and another has returned its own signature
C22_Witness ==
  /\ SendingConcurrently
  /\ sends[1].returned.status = "err"
  /\ sends[2].pc = "confirming"
  /\ 2 \in timers
  /\ Len(sends[2].broadcasts) = 2
  /\ sends[3].returned.status = "ok"
  /\ sends[3].returned.signature = OwnSignature(3)

-----------------------------------------------------------------------------
(* buildAndSignTransaction and buildAndSignOptimalTransaction: what becomes
   of the array the caller passes *)

InstructionReturnChoices == {IxMid, IxTail}

\* the caller passes one instruction return, or an array of them
ArgumentChoices ==
  {[isArray |-> FALSE, ref |-> 0, item |-> ix] : ix \in InstructionReturnChoices}
    \cup {[isArray |-> TRUE, ref |-> 1, item |-> NoInstruction]}

GetLimitChoices == {Absent, Undefined, 0, 200000}
GetFeeChoices == {Absent, 0, 5000}

SingleEntryPoints == {"buildAndSignTransaction", "buildAndSignOptimalTransaction"}

\* Array.isArray(val) ? val : [val]: an array comes back as the same
\* array, a single value in a new array; the reference, then the heap
normalizeArray(val, h) ==
  IF val.isArray THEN <<val.ref, h>> ELSE <<Len(h) + 1, Append(h, <<val.item>>)>>

\* array.unshift(el), on the array behind a reference
Unshift(h, ref, el) == [h EXCEPT ![ref] = <<el>> \o @]

\* if (units), if (microLamports): undefined and 0 are falsy
Truthy(v) == v # Undefined /\ v # 0

\* an undefined function of the priority config resolves to undefined
Resolve(fn) == [settled |-> TRUE, value |-> IF fn = Absent THEN Undefined ELSE fn]

OptimalInit ==
  /\ entry \in SingleEntryPoints
  /\ instructions \in ArgumentChoices
  /\ given \in SeqsUpTo(InstructionReturnChoices, 2)
  /\ heap = IF instructions.isArray THEN <<given>> ELSE <<>>
  /\ instructions.isArray \/ given = <<>>
  /\ priorityConfig \in [getLimit : GetLimitChoices, getFee : GetFeeChoices]
  /\ entry = "buildAndSignTransaction" => priorityConfig = [getLimit |-> Absent, getFee |-> Absent]
  /\ ixArray = 0
  /\ units = NotSettled
  /\ microLamports = NotSettled
  /\ rbh = NotSettled
  /\ handedOn = <<>>
  /\ instructionsWithSigners = <<>>
  /\ lookupTables = <<>>
  /\ pc = "start"
  /\ PackIdle
  /\ SizeIdle
  /\ SignIdle
  /\ SendIdle
  /\ ConcurrentIdle
  /\ BudgetIdle
  /\ RpcIdle

optimalInputs == <<entry, instructionsWithSigners, lookupTables, packVars, sizeVars, signVars, sendVars, concurrentVars, budgetVars, rpcVars, given, instructions, priorityConfig>>

\* buildAndSignTransaction: the instructions are resolved into a new array
BuildAndSign ==
  /\ entry = "buildAndSignTransaction"
  /\ pc = "start"
  /\ LET normalized == normalizeArray(instructions, heap)
     IN handedOn' = normalized[2][normalized[1]]
  /\ pc' = "built"
  /\ UNCHANGED <<optimalInputs, heap, ixArray, units, microLamports, rbh>>

\* buildAndSignOptimalTransaction up to its await: normalizeArray, and the
\* three promises of Promise.all are started
StartOptimal ==
  /\ entry = "buildAndSignOptimalTransaction"
  /\ pc = "start"
  /\ LET normalized == normalizeArray(instructions, heap)
     IN /\ ixArray' = normalized[1]
        /\ heap' = normalized[2]
  /\ pc' = "awaiting"
  /\ UNCHANGED <<optimalInputs, units, microLamports, rbh, handedOn>>

GetLimitResolves ==
  /\ pc = "awaiting"
  /\ ~units.settled
  /\ units' = Resolve(priorityConfig.getLimit)
  /\ UNCHANGED <<optimalInputs, pc, heap, ixArray, microLamports, rbh, handedOn>>

GetFeeResolves ==
  /\ pc = "awaiting"
  /\ ~microLamports.settled
  /\ microLamports' = Resolve(priorityConfig.getFee)
  /\ UNCHANGED <<optimalInputs, pc, heap, ixArray, units, rbh, handedOn>>

GetLatestBlockhashResolves ==
  /\ pc = "awaiting"
  /\ ~rbh.settled
  /\ rbh' = [settled |-> TRUE, value |-> 1]
  /\ UNCHANGED <<optimalInputs, pc, heap, ixArray, units, microLamports, handedOn>>

\* Promise.all has resolved: the compute-budget instructions are unshifted
\* into ixArray, which goes to buildAndSignTransaction
AttachAndBuild ==
  /\ pc = "awaiting"
  /\ units.settled /\ microLamports.settled /\ rbh.settled
  /\ LET withLimit == IF Truthy(units.value) THEN Unshift(heap, ixArray, SetComputeUnitLimit) ELSE heap
         withPrice == IF Truthy(microLamports.value) THEN Unshift(withLimit, ixArray, SetComputeUnitPrice) ELSE withLimit
     IN /\ heap' = withPrice
        /\ handedOn' = withPrice[ixArray]
  /\ pc' = "built"
  /\ UNCHANGED <<optimalInputs, ixArray, units, microLamports, rbh>>

OptimalNext ==
  \/ BuildAndSign
  \/ StartOptimal
  \/ GetLimitResolves
  \/ GetFeeResolves
  \/ GetLatestBlockhashResolves
  \/ AttachAndBuild

OptimalSpec == OptimalInit /\ [][OptimalNext]_vars

\* C25: the instruction array supplied by the caller is read-only: after a
\* call of buildAndSignTransaction or buildAndSignOptimalTransaction it
\* holds the same elements in the same order as when the call was made.
C25_CallerArrayUntouched ==
  (entry \in SingleEntryPoints /\ instructions.isArray) =>
    heap[instructions.ref] = given

-----------------------------------------------------------------------------
(* getTransactionSize and its table selector on chosen batches and pools *)

\* one instruction over twenty eligible accounts whose size with a table
\* over ten of them is MAX_TRANSACTION_SIZE to the byte
IxTwenty == Ix(4, <<Meta(FeePayer, TRUE)>> \o KeyRun(400, 20), 675, {FeePayer})

LutTen == Lut(971, Addresses(KeyRun(400, 10)))
LutTenB == Lut(972, Addresses(KeyRun(410, 10)))
LutTwelve == Lut(973, Addresses(KeyRun(404, 12)))
\* a table that holds none of the accounts
LutUseless == Lut(974, Addresses(KeyRun(500, 3)))

\* the sequences without repetition over a set
Arrangements(S) == {q \in SeqsUpTo(S, MaxLen) : \A i, j \in 1..Len(q) : q[i] = q[j] => i = j}

SelectBatches ==
  {<<IxMid>>, <<IxTwenty>>,
   SubSeq(WeirdTransfers, 1, 12),
   SubSeq(WeirdTransfers, 1, 16),
   SubSeq(WeirdTransfers, 17, ChunkCount)}

SelectPools ==
  Arrangements({LutTen, LutTenB, LutTwelve, LutUseless})
    \cup Arrangements({lut1, lut2, lut3, lut4})
    \cup {ManyLuts}

SelectInit ==
  /\ entry = "getTransactionSize"
  /\ instructionsWithSigners \in SelectBatches
  /\ lookupTables \in SelectPools
  /\ pc = "start"
  /\ PackIdle
  /\ OthersIdle

\* getTransactionSize(instructions, funder, buildLookupTableSet(lookupTables))
Select ==
  /\ entry = "getTransactionSize"
  /\ pc = "start"
  /\ estimate' = getTransactionSize(instructionsWithSigners, FeePayer, buildLookupTableSet(lookupTables))
  /\ pc' = "sized"
  /\ UNCHANGED <<entry, instructionsWithSigners, lookupTables, packVars, serialized, signVars, sendVars, laterVars>>

SelectNext == Select

SelectSpec == SelectInit /\ [][SelectNext]_vars

\* the projected size of the batch with a set of tables, from the formula
Eligible == LutEligibleKeys(instructionsWithSigners, FeePayer)

CoveredBy(T) == Eligible \cap UNION {Range(t.addresses) : t \in T}

ProjectedSize(T) ==
  totalSize([staticSize |-> StaticSize(instructionsWithSigners, FeePayer),
             staticAccounts |-> Cardinality(IneligibleKeys(instructionsWithSigners, FeePayer))],
            Cardinality(T), Cardinality(CoveredBy(T)), Cardinality(Eligible \ CoveredBy(T)))

\* getTransactionSize has gone into the selector
Selected ==
  /\ entry = "getTransactionSize"
  /\ pc = "sized"
  /\ ProjectedSize({}) > MAX_TRANSACTION_SIZE
  /\ lookupTables # <<>>
  /\ Cardinality(AllMetaKeys(instructionsWithSigners) \cup IneligibleKeys(instructionsWithSigners, FeePayer)) <= MAX_UNIQUE_KEYS_COUNT

\* C26: the selector accepts immediately the first candidate, in input
\* order, whose projected size is at or below 1232 bytes (exactly 1232
\* included): it returns that table alone, with that size, whatever the
\* later candidates are.
C26_AcceptsAtOrBelowBudget ==
  Selected =>
    \A i \in 1..Len(lookupTables) :
      (/\ ProjectedSize({lookupTables[i]}) <= MAX_TRANSACTION_SIZE
       /\ \A j \in 1..(i - 1) : ProjectedSize({lookupTables[j]}) > MAX_TRANSACTION_SIZE)
        => /\ estimate.lookupTables = <<lookupTables[i]>>
           /\ estimate.size = ProjectedSize({lookupTables[i]})

\* the tables the selector returned, and the first k of them
Used == estimate.lookupTables

UsedBefore(k) == {Used[j] : j \in 1..(k - 1)}

\* the positions of the candidates still in the pool in round k
PoolAt(k) == {i \in 1..Len(lookupTables) : lookupTables[i] \notin UsedBefore(k)}

\* the projected size of candidate i in round k
ProjectedWith(k, i) == ProjectedSize(UsedBefore(k) \cup {lookupTables[i]})

PositionOf(t) == CHOOSE i \in 1..Len(lookupTables) : lookupTables[i] = t

\* round k ended the search: its table is the first of the pool that
\* brings the batch below the budget
EagerAt(k) ==
  LET p == PositionOf(Used[k])
  IN /\ k = Len(Used)
     /\ ProjectedWith(k, p) < MAX_TRANSACTION_SIZE
     /\ \A i \in PoolAt(k) : i < p => ProjectedWith(k, i) >= MAX_TRANSACTION_SIZE

\* round k committed the smallest candidate, the first on a tie, and that
\* candidate made the batch smaller
CommittedAt(k) ==
  LET p == PositionOf(Used[k])
  IN /\ \A i \in PoolAt(k) : ProjectedWith(k, i) >= MAX_TRANSACTION_SIZE
     /\ ProjectedWith(k, p) < ProjectedSize(UsedBefore(k))
     /\ \A i \in PoolAt(k) :
          /\ ProjectedWith(k, p) <= ProjectedWith(k, i)
          /\ ProjectedWith(k, p) = ProjectedWith(k, i) => p <= i

\* C27 as first stated: the selector goes on committing the smallest
\* candidate until the candidates are exhausted or the budget is met.
C27_UntilExhaustedOrBudgetMet ==
  Selected =>
    \/ estimate.size <= MAX_TRANSACTION_SIZE
    \/ Range(Used) = Range(lookupTables)

\* C27: when no candidate is accepted at once, the selector commits the
\* candidate with the smallest projected size (the first in input order on
\* a tie) provided it makes the batch smaller, removes it from the pool and
\* repeats, until the pool is empty, a candidate is accepted at once or no
\* candidate makes the batch smaller; the tables are returned in commit
\* order, the size is that of the batch with these tables, and the
\* batches of the four-table test get tables 2, 3, 1 and table 4.
C27_GreedyCommitOrder ==
  Selected =>
    /\ \A k \in 1..Len(Used) :
         /\ Used[k] \in Range(lookupTables) \ UsedBefore(k)
         /\ EagerAt(k) \/ CommittedAt(k)
    /\ \/ Len(Used) > 0 /\ EagerAt(Len(Used))
       \/ \A i \in PoolAt(Len(Used) + 1) :
            ProjectedWith(Len(Used) + 1, i) >= ProjectedSize(Range(Used))
    /\ estimate.size = ProjectedSize(Range(Used))
    /\ (instructionsWithSigners = SubSeq(WeirdTransfers, 1, 16) /\ lookupTables = ManyLuts)
         => Used = <<lut2, lut3, lut1>>
    /\ (instructionsWithSigners = SubSeq(WeirdTransfers, 17, ChunkCount) /\ lookupTables = ManyLuts)
         => Used = <<lut4>>

C27_Witness ==
  /\ Selected
  /\ instructionsWithSigners = SubSeq(WeirdTransfers, 1, 16)
  /\ lookupTables = ManyLuts
  /\ Used = <<lut2, lut3, lut1>>
  /\ CommittedAt(1)
  /\ CommittedAt(2)
  /\ EagerAt(3)

\* C29: every batch the packer emits holds at least one input instruction
\* between its scaffolding, at a split as after the loop and whatever
\* maxInstructionCount is; with no input instruction it succeeds with no
\* batch.
C29_NoScaffoldingOnlyBatch ==
  PackedOk =>
    /\ \A j \in 1..Len(output) : Len(Unwrapped(output[j])) >= 1
    /\ instructionsWithSigners = <<>> => output = <<>>

-----------------------------------------------------------------------------
(* buildOptimalDynamicTransactions, from packing to signing *)

\* a function of the priority config that is defined
Present == 1

\* what getLimit and getFee can resolve to
SimulationUnitsChoices == {Undefined, 200000}
FeesChoices == {5000}

\* ComputeBudgetProgram.setComputeUnitPrice({ microLamports: ix.fees })
ComputeUnitPrice(fees) ==
  [instruction |-> [programId |-> 3, keys |-> <<>>, dataLen |-> 9, microLamports |-> fees], signers |-> {}]

\* ComputeBudgetProgram.setComputeUnitLimit({ units: ix.simulationUnits })
ComputeUnitLimit(simulationUnits) ==
  [instruction |-> [programId |-> 3, keys |-> <<>>, dataLen |-> 5, units |-> simulationUnits], signers |-> {}]

\* a Promise.all that resolves as soon as one batch is through
AllSettled_FirstBatch(queries, blockhash) ==
  \E j \in 1..Len(queries) : queries[j].simulationUnits.settled /\ queries[j].fees.settled

\* Promise.all over every batch's queries and getLatestBlockhash
AllSettled(queries, blockhash) ==
  /\ \A j \in 1..Len(queries) : queries[j].simulationUnits.settled /\ queries[j].fees.settled
  /\ blockhash.settled

\* the two unshifts on a batch: the price, then the limit in front of it
WithComputeBudget(ixs, query) ==
  LET withFees == IF query.fees.value # Undefined THEN <<ComputeUnitPrice(query.fees.value)>> \o ixs ELSE ixs
  IN IF query.simulationUnits.value # Undefined
     THEN <<ComputeUnitLimit(query.simulationUnits.value)>> \o withFees
     ELSE withFees

BudgetInit ==
  /\ entry = "buildOptimalDynamicTransactions"
  /\ instructionsWithSigners \in SeqsUpTo({IxMid, IxBig}, MaxLen)
  /\ \E b \in BeforeChoices : beforeIxsWithSigners = PackerBefore(entry, b)
  /\ afterIxsWithSigners \in AfterChoices
  /\ lookupTables = <<>>
  /\ maxInstructionCount \in {3, DefaultMaxInstructionCount}
  /\ priorityConfig \in [getLimit : {Absent, Present}, getFee : {Absent, Present}]
  /\ pc = "start"
  /\ current = [instructions |-> <<>>, lookupTables |-> <<>>]
  /\ output = <<>>
  /\ next = 1
  /\ packResult = NoResult
  /\ transactions = <<>>
  /\ outcome = "none"
  /\ SizeIdle
  /\ SignIdle
  /\ SendIdle
  /\ ConcurrentIdle
  /\ heap = <<>>
  /\ given = <<>>
  /\ instructions = [isArray |-> FALSE, ref |-> 0, item |-> NoInstruction]
  /\ ixArray = 0
  /\ units = NotSettled
  /\ microLamports = NotSettled
  /\ rbh = NotSettled
  /\ handedOn = <<>>
  /\ BudgetIdle
  /\ RpcIdle

budgetInputs == <<inputs, current, next, packResult, sizeVars, signVars, sendVars, concurrentVars, optimalVars, rpcVars>>

\* if (noSigning.isErr()) throw noSigning.error
ThrowPackError ==
  /\ entry = "buildOptimalDynamicTransactions"
  /\ pc = "packed"
  /\ packResult.status = "err"
  /\ outcome' = OptimalFailure
  /\ pc' = "returned"
  /\ UNCHANGED <<budgetInputs, output, transactions, budgetVars>>

\* the map over the packed batches: the simulation transaction is built
\* from all instructions of the batch, then the first two are spliced out;
\* Promise.all then starts the queries of every batch and the blockhash
Simulate ==
  /\ entry = "buildOptimalDynamicTransactions"
  /\ pc = "packed"
  /\ packResult.status = "ok"
  /\ noSignedIxs' = [j \in 1..Len(output) |->
                       [simulationTransaction |-> output[j].instructions,
                        lookupTables |-> output[j].lookupTables]]
  /\ output' = [j \in 1..Len(output) |->
                  [instructions |-> DropTestInstructions(output[j].instructions),
                   lookupTables |-> output[j].lookupTables]]
  /\ budgets' = [j \in 1..Len(output) |->
                   [simulationUnits |-> IF priorityConfig.getLimit = Absent THEN Resolve(Absent) ELSE NotSettled,
                    fees |-> IF priorityConfig.getFee = Absent THEN Resolve(Absent) ELSE NotSettled]]
  /\ pc' = "querying"
  /\ UNCHANGED <<budgetInputs, transactions, outcome, latestBlockhash, signedMessages>>

\* priorityConfig.getLimit(simulationTransaction, connection) of a batch
GetLimitReturns(j) ==
  /\ pc = "querying"
  /\ ~budgets[j].simulationUnits.settled
  /\ \E v \in SimulationUnitsChoices :
       budgets' = [budgets EXCEPT ![j].simulationUnits = Resolve(v)]
  /\ UNCHANGED <<budgetInputs, pc, output, transactions, outcome, noSignedIxs, latestBlockhash, signedMessages>>

\* priorityConfig.getFee(writableKeys, connection) of a batch
GetFeeReturns(j) ==
  /\ pc = "querying"
  /\ ~budgets[j].fees.settled
  /\ \E v \in FeesChoices :
       budgets' = [budgets EXCEPT ![j].fees = Resolve(v)]
  /\ UNCHANGED <<budgetInputs, pc, output, transactions, outcome, noSignedIxs, latestBlockhash, signedMessages>>

LatestBlockhashReturns ==
  /\ pc = "querying"
  /\ ~latestBlockhash.settled
  /\ latestBlockhash' = [settled |-> TRUE, value |-> 1]
  /\ UNCHANGED <<budgetInputs, pc, output, transactions, outcome, noSignedIxs, budgets, signedMessages>>

\* Promise.all has resolved: the compute-budget instructions are unshifted
\* into every batch and the batches handed to building and signing
AttachComputeBudget ==
  /\ pc = "querying"
  /\ AllSettled(budgets, latestBlockhash)
  /\ output' = [j \in 1..Len(output) |->
                  [instructions |-> WithComputeBudget(output[j].instructions, budgets[j]),
                   lookupTables |-> output[j].lookupTables]]
  /\ transactions' = [j \in 1..Len(output) |->
                        [ixs |-> output'[j].instructions, lookupTables |-> output[j].lookupTables]]
  /\ pc' = "signing"
  /\ UNCHANGED <<budgetInputs, outcome, budgetVars>>

\* buildAndSignTransactionsFromIxWithSigners: the messages are compiled
\* from the batches handed on and the signers sign them
SignTransactions ==
  /\ entry = "buildOptimalDynamicTransactions"
  /\ pc = "signing"
  /\ signedMessages' = [j \in 1..Len(transactions) |-> transactions[j].ixs]
  /\ outcome' = "ok"
  /\ pc' = "returned"
  /\ UNCHANGED <<budgetInputs, output, transactions, noSignedIxs, budgets, latestBlockhash>>

BudgetNext ==
  \/ Seed
  \/ Step
  \/ Finish
  \/ ThrowPackError
  \/ Simulate
  \/ \E j \in 1..Len(budgets) : GetLimitReturns(j)
  \/ \E j \in 1..Len(budgets) : GetFeeReturns(j)
  \/ LatestBlockhashReturns
  \/ AttachComputeBudget
  \/ SignTransactions

BudgetSpec == BudgetInit /\ [][BudgetNext]_vars

Placeholders == Range(COMPUTE_TEST_INSTRUCTION_RETURNS)

HoldsPlaceholder(ixs) == \E k \in 1..Len(ixs) : ixs[k] \in Placeholders

\* the compute-budget instructions the queries of a batch call for
BudgetOf(query) ==
  (IF query.simulationUnits.value # Undefined THEN <<ComputeUnitLimit(query.simulationUnits.value)>> ELSE <<>>)
    \o (IF query.fees.value # Undefined THEN <<ComputeUnitPrice(query.fees.value)>> ELSE <<>>)

\* C28: in buildOptimalDynamicTransactions no batch is signed before its
\* simulation and fee query have completed and its compute-budget
\* instructions have been attached, and the two placeholder instructions
\* the batch was packed and simulated with are removed before the real
\* ones are attached: a signed message is the real compute-budget
\* instructions followed by the batch without its placeholders.
C28_SimulateAttachSign ==
  /\ pc \in {"start", "loop", "packed", "querying"} => signedMessages = <<>>
  /\ pc = "querying" => \A j \in 1..Len(output) : ~HoldsPlaceholder(output[j].instructions)
  /\ signedMessages # <<>> =>
       /\ Len(signedMessages) = Len(noSignedIxs)
       /\ \A j \in 1..Len(signedMessages) :
            /\ budgets[j].simulationUnits.settled
            /\ budgets[j].fees.settled
            /\ SubSeq(noSignedIxs[j].simulationTransaction, 1, 2) = COMPUTE_TEST_INSTRUCTION_RETURNS
            /\ signedMessages[j] = BudgetOf(budgets[j])
                 \o SubSeq(noSignedIxs[j].simulationTransaction, 3, Len(noSignedIxs[j].simulationTransaction))
            /\ ~HoldsPlaceholder(signedMessages[j])

C28_Witness ==
  /\ pc = "returned"
  /\ Len(signedMessages) >= 2
  /\ signedMessages[1][1] = ComputeUnitLimit(200000)
  /\ signedMessages[1][2] = ComputeUnitPrice(5000)
  /\ Len(signedMessages[2]) = 2
  /\ signedMessages[2][1] = ComputeUnitPrice(5000)
  /\ signedMessages[2][2] \in {IxMid, IxBig}

-----------------------------------------------------------------------------
(* The RPC data source: programs, their listeners and their handles *)

\* the programs inserted into one data source
MaxPrograms == 2

StartupCommitments == {"confirmed", "recent"}

\* a StoredProgram, of which the model keeps the listener ids
StoredProgram(ids) == [isNull |-> FALSE, listenerId |-> ids]

NullProgram == [isNull |-> TRUE, listenerId |-> <<>>]

\* a close that leaves the program in its slot
SlotAfterClose_Kept(slot) == slot

\* programs.programs[index] = null
SlotAfterClose(slot) == NullProgram

\* connection.removeProgramAccountChangeListener(id) for each id, as close
\* calls it, and connection.removeAccountChangeListener(id), as
\* closeDataSource calls it: the connection disposes of the subscription
\* with that client id; the calls are kept with who made them
RemoveListeners(ids, by) == [k \in 1..Len(ids) |-> [listenerId |-> ids[k], by |-> by]]

\* programs.filter((p) => p !== null).flatMap((p) => p.listenerId)
RECURSIVE LiveListenerIds(_)
LiveListenerIds(list) ==
  IF Len(list) = 0 THEN <<>>
  ELSE (IF Head(list).isNull THEN <<>> ELSE Head(list).listenerId) \o LiveListenerIds(Tail(list))

RpcInit ==
  /\ entry = "buildRPCDataSource"
  /\ instructionsWithSigners = <<>>
  /\ lookupTables = <<>>
  /\ pc = "open"
  /\ PackIdle
  /\ SizeIdle
  /\ SignIdle
  /\ SendIdle
  /\ ConcurrentIdle
  /\ OptimalIdle
  /\ BudgetIdle
  /\ RpcIdle

rpcInputs == <<entry, instructionsWithSigners, lookupTables, pc, packVars, sizeVars, signVars, sendVars, concurrentVars, optimalVars, budgetVars>>

\* insertProgram up to its await refresh()
InsertProgram(startupCommitment) ==
  /\ IF programs.isNull
     THEN /\ late' = late \cup {[op |-> "insertProgram", did |-> "Data source closed"]}
          /\ UNCHANGED <<programs, subscriptionCount, subscriptions, inserting>>
     ELSE IF startupCommitment = "recent"
     THEN UNCHANGED <<programs, subscriptionCount, subscriptions, inserting, late>>
     ELSE /\ Len(programs.list) < MaxPrograms
          /\ LET array == [k \in 1..3 |-> subscriptionCount + k]
                 index == Len(programs.list) + 1
             IN /\ subscriptionCount' = subscriptionCount + 3
                /\ subscriptions' = subscriptions \cup Range(array)
                /\ programs' = [programs EXCEPT !.list = Append(@, StoredProgram(array))]
                /\ inserting' = inserting \cup {index}
          /\ UNCHANGED late
  /\ UNCHANGED <<rpcInputs, pendingRemovals, removeCalls, returnedHandles, refreshing, dataSourceClose>>

\* the refresh of insertProgram settles: the handle is returned, or
\* insertProgram raises what getProgramAccounts raised
InsertReturns(index) ==
  /\ index \in inserting
  /\ inserting' = inserting \ {index}
  /\ \E resolved \in BOOLEAN :
       returnedHandles' = IF resolved THEN returnedHandles \cup {index} ELSE returnedHandles
  /\ UNCHANGED <<rpcInputs, programs, subscriptionCount, subscriptions, pendingRemovals, removeCalls, refreshing, dataSourceClose, late>>

\* close() of a handle, up to its await
HandleClose(index) ==
  /\ index \in returnedHandles
  /\ IF programs.isNull
     THEN /\ late' = late \cup {[op |-> "close", did |-> "nothing"]}
          /\ UNCHANGED <<programs, removeCalls, pendingRemovals>>
     ELSE IF programs.list[index].isNull
     THEN UNCHANGED <<programs, removeCalls, pendingRemovals, late>>
     ELSE LET listenerId == programs.list[index].listenerId
          IN /\ programs' = [programs EXCEPT !.list[index] = SlotAfterClose(@)]
             /\ removeCalls' = removeCalls \o RemoveListeners(listenerId, "close")
             /\ pendingRemovals' = pendingRemovals \cup (Range(listenerId) \cap subscriptions)
             /\ UNCHANGED late
  /\ UNCHANGED <<rpcInputs, subscriptionCount, subscriptions, returnedHandles, inserting, refreshing, dataSourceClose>>

\* refresh() of a handle, up to its await getProgramAccounts
HandleRefresh(index) ==
  /\ index \in returnedHandles
  /\ IF programs.isNull
     THEN /\ late' = late \cup {[op |-> "refresh", did |-> "nothing"]}
          /\ UNCHANGED refreshing
     ELSE IF programs.list[index].isNull
     THEN UNCHANGED <<refreshing, late>>
     ELSE /\ refreshing' = refreshing \cup {index}
          /\ UNCHANGED late
  /\ UNCHANGED <<rpcInputs, programs, subscriptionCount, subscriptions, pendingRemovals, removeCalls, returnedHandles, inserting, dataSourceClose>>

\* getProgramAccounts of a refresh settles and the accounts are provided
RefreshReturns(index) ==
  /\ index \in refreshing
  /\ refreshing' = refreshing \ {index}
  /\ UNCHANGED <<rpcInputs, programs, subscriptionCount, subscriptions, pendingRemovals, removeCalls, returnedHandles, inserting, dataSourceClose, late>>

\* refreshAll: the refresh of every program that is not null
RefreshAll ==
  /\ refreshing' = IF programs.isNull THEN refreshing
                   ELSE refreshing \cup {i \in 1..Len(programs.list) : ~programs.list[i].isNull}
  /\ UNCHANGED <<rpcInputs, late, programs, subscriptionCount, subscriptions, pendingRemovals, removeCalls, returnedHandles, inserting, dataSourceClose>>

\* closeDataSource up to its await
CloseDataSource ==
  /\ IF programs.isNull
     THEN /\ late' = late \cup {[op |-> "closeDataSource", did |-> "Data source already closed"]}
          /\ UNCHANGED <<programs, removeCalls, pendingRemovals, dataSourceClose>>
     ELSE LET listenerIds == LiveListenerIds(programs.list)
          IN /\ removeCalls' = removeCalls \o RemoveListeners(listenerIds, "closeDataSource")
             /\ pendingRemovals' = pendingRemovals \cup (Range(listenerIds) \cap subscriptions)
             /\ programs' = [isNull |-> TRUE, list |-> <<>>]
             /\ dataSourceClose' = "awaiting"
             /\ UNCHANGED late
  /\ UNCHANGED <<rpcInputs, subscriptionCount, subscriptions, returnedHandles, inserting, refreshing>>

\* the connection has disposed of a subscription; the removals asked for
\* one program are done in the order they were asked for
RemovalDone(id) ==
  /\ id \in pendingRemovals
  /\ \A other \in pendingRemovals : (other - 1) \div 3 = (id - 1) \div 3 => id <= other
  /\ pendingRemovals' = pendingRemovals \ {id}
  /\ subscriptions' = subscriptions \ {id}
  /\ UNCHANGED <<rpcInputs, programs, subscriptionCount, removeCalls, returnedHandles, inserting, refreshing, dataSourceClose, late>>

\* await Promise.all(promises) of closeDataSource resolves
CloseDataSourceReturns ==
  /\ dataSourceClose = "awaiting"
  /\ \A k \in 1..Len(removeCalls) :
       removeCalls[k].by = "closeDataSource" => removeCalls[k].listenerId \notin pendingRemovals
  /\ dataSourceClose' = "returned"
  /\ UNCHANGED <<rpcInputs, programs, subscriptionCount, subscriptions, pendingRemovals, removeCalls, returnedHandles, inserting, refreshing, late>>

RpcNext ==
  \/ \E startupCommitment \in StartupCommitments : InsertProgram(startupCommitment)
  \/ \E index \in 1..MaxPrograms : InsertReturns(index)
  \/ \E index \in 1..MaxPrograms : HandleClose(index)
  \/ \E index \in 1..MaxPrograms : HandleRefresh(index)
  \/ \E index \in 1..MaxPrograms : RefreshReturns(index)
  \/ RefreshAll
  \/ CloseDataSource
  \/ \E id \in 1..(3 * MaxPrograms) : RemovalDone(id)
  \/ CloseDataSourceReturns

RpcSpec == RpcInit /\ [][RpcNext]_vars

\* how often the connection was asked to remove a listener
RemovalsOf(id) == Cardinality({k \in 1..Len(removeCalls) : removeCalls[k].listenerId = id})

ClosedByHandle(id) == \E k \in 1..Len(removeCalls) : removeCalls[k] = [listenerId |-> id, by |-> "close"]

\* C30: in every interleaving of insertProgram, close() and refresh() of
\* the handles and closeDataSource, no listener is removed more than once;
\* once closeDataSource has returned, every listener of a program that was
\* not closed before is gone from the connection; and on the closed data
\* source insertProgram raises 'Data source closed' while close() and
\* refresh() of the handles do nothing.
C30_ListenersRemovedOnce ==
  entry = "buildRPCDataSource" =>
    /\ \A id \in 1..subscriptionCount : RemovalsOf(id) <= 1
    /\ programs.isNull => \A id \in 1..subscriptionCount : RemovalsOf(id) = 1
    /\ dataSourceClose = "returned" =>
         \A id \in 1..subscriptionCount : ClosedByHandle(id) \/ id \notin subscriptions
    /\ \A r \in late :
         /\ programs.isNull
         /\ r.op = "insertProgram" => r.did = "Data source closed"
         /\ r.op \in {"close", "refresh"} => r.did = "nothing"
    /\ \A k \in 1..Len(removeCalls) :
         removeCalls[k].by = "close" =>
           \A m \in 1..(k - 1) : removeCalls[m].by = "close"

\* a program was closed by its handle and another by closeDataSource, which
\* has returned; then insertProgram, close and refresh were called again
C30_Witness ==
  /\ entry = "buildRPCDataSource"
  /\ dataSourceClose = "returned"
  /\ subscriptionCount = 3 * MaxPrograms
  /\ ClosedByHandle(1)
  /\ removeCalls[Len(removeCalls)].by = "closeDataSource"
  /\ subscriptions \subseteq {1, 2, 3}
  /\ {r.op : r \in late} = {"insertProgram", "close", "refresh"}

====
